---- MODULE Spec2Model ----
(***************************************************************************)
(* Verification model of the invoice-reconciliation repository.            *)
(*                                                                         *)
(* Part 1: the fuzzy string matcher (utils/stringMatcher):                 *)
(*   levenshteinDistance, similarity and findBestMatch.                    *)
(*                                                                         *)
(* Strings are sequences of UTF-16 code units (integers); a candidate is a *)
(* product record {productCode, productName} as in the catalog and in the  *)
(* matcher's tests, and the key extractor is p => p.productName.           *)
(*                                                                         *)
(* Part 2: the same functions statement by statement, as invocations of    *)
(* several tasks whose steps interleave.                                   *)
(*                                                                         *)
(* Part 3: the application state of context/AppContext and the handlers of *)
(* context/useAppLogic.  A nullable value is Null or a record.             *)
(*                                                                         *)
(* Scores are JavaScript doubles of the form 1 - d/m with integers         *)
(* 0 <= d <= m.  For m far below 2^26 two such doubles compare exactly as  *)
(* the rationals (m - d)/m do (distinct quotients differ by at least       *)
(* 1/m^2, far more than one ulp, and equal quotients round equally), so a  *)
(* score is modelled as the rational (m - d)/m in lowest terms.            *)
(***************************************************************************)
EXTENDS Integers, Sequences, FiniteSets, TLC

VARIABLES
    fn,                 \* the function being invoked
    a, b,               \* arguments of levenshteinDistance / the compared pair
    target, candidates, \* arguments of findBestMatch
    pc,                 \* "call": about to run, "done": returned
    ret,                \* the value returned
    keyExtractorCalls,  \* number of times the key extractor was invoked
    tasks,              \* Parts 2, 5 and 6: the invocations in progress, by task
    slots,              \* Part 2: the locals each invocation allocated
    appState,           \* Part 3: the state of AppContext ...
    masterData,
    batchData,
    processedFiles,
    failedFiles,
    currentIndex,
    processingStatus,
    error,
    localStorage,       \* the item 'masterDatabase' of localStorage
    uploads,            \* the handleFilesUpload calls awaiting their results
    returned,           \* the handleFilesUpload call that returned in the last step
    loaded              \* the handleMasterDataLoad call that returned in the last step

matcherVars == <<fn, a, b, target, candidates, pc, ret, keyExtractorCalls>>
taskVars == <<tasks, slots>>
appVars == <<appState, masterData, batchData, processedFiles, failedFiles, currentIndex,
             processingStatus, error, localStorage, uploads, returned, loaded>>
vars == <<matcherVars, taskVars, appVars>>

-----------------------------------------------------------------------------
(* Bounds and input sets *)

MaxLen == 2         \* longest string given to levenshteinDistance directly
MaxQueryLen == 2    \* longest enumerated query of findBestMatch
MaxLabelLen == 3    \* longest enumerated product name
MaxCands == 2       \* longest enumerated candidate list

\* 'A', 'a', 'b': two letters, one of them in both cases
Alphabet == {65, 97, 98}
\* the enumerated product names are written with 'A' alone
LabelAlphabet == {65}

StringsOver(alphabet, n) == UNION {[1..k -> alphabet] : k \in 0..n}

Strings == StringsOver(Alphabet, MaxLen)
Labels == StringsOver(LabelAlphabet, MaxLabelLen)

-----------------------------------------------------------------------------
(* Fixtures of the matcher's tests *)

DeliciousApples == <<68, 101, 108, 105, 99, 105, 111, 117, 115, 32, 65, 112, 112, 108, 101, 115>>
FreshBananas == <<70, 114, 101, 115, 104, 32, 66, 97, 110, 97, 110, 97, 115>>
OrganicCarrots == <<79, 114, 103, 97, 110, 105, 99, 32, 67, 97, 114, 114, 111, 116, 115>>
VeryDeliciousApples == <<86, 101, 114, 121, 32, 68, 101, 108, 105, 99, 105, 111, 117, 115, 32, 65, 112, 112, 108, 101, 115>>
DeliciusApples == <<68, 101, 108, 105, 99, 105, 117, 115, 32, 65, 112, 112, 108, 101, 115>>
RandomString == <<82, 97, 110, 100, 111, 109, 32, 83, 116, 114, 105, 110, 103>>
deliciousApplesLower == <<100, 101, 108, 105, 99, 105, 111, 117, 115, 32, 97, 112, 112, 108, 101, 115>>
apples == <<97, 112, 112, 108, 101, 115>>

\* a candidate list whose i-th record has productCode i (P001, P002, ...)
Catalog(names) == [i \in 1..Len(names) |-> [productCode |-> i, productName |-> names[i]]]

testCandidates == Catalog(<<DeliciousApples, FreshBananas, OrganicCarrots>>)
newCandidates == Catalog(<<DeliciousApples, FreshBananas, OrganicCarrots, VeryDeliciousApples>>)
\* the two-record list of the specification's scenario 5
scenarioCandidates == SubSeq(testCandidates, 1, 2)

\* U+00B5 MICRO SIGN and its toUpperCase(), U+039C GREEK CAPITAL LETTER MU,
\* whose toLowerCase() is U+03BC GREEK SMALL LETTER MU
microSign == <<181>>
capitalMu == <<924>>
microCandidates == Catalog(<<microSign>>)

TestQueries == {DeliciusApples, RandomString, deliciousApplesLower, apples, DeliciousApples}

Queries == StringsOver(Alphabet, MaxQueryLen) \cup TestQueries \cup {microSign, capitalMu}

CandidateLists ==
    {Catalog(names) : names \in UNION {[1..k -> Labels] : k \in 0..MaxCands}}
        \cup {testCandidates, newCandidates, scenarioCandidates, microCandidates}

-----------------------------------------------------------------------------
(* Numbers *)

Max(x, y) == IF x >= y THEN x ELSE y
Min(x, y) == IF x <= y THEN x ELSE y
Abs(x) == IF x < 0 THEN -x ELSE x

RECURSIVE Gcd(_, _)
Gcd(x, y) == IF y = 0 THEN x ELSE Gcd(y, x % y)

\* the rational n/d (d > 0) in lowest terms
Rat(n, d) == LET g == Gcd(Abs(n), d) IN [num |-> n \div g, den |-> d \div g]

Greater(x, y) == x.num * y.den > y.num * x.den

One == Rat(1, 1)
Zero == Rat(0, 1)
Half == Rat(1, 2)
MinusOne == Rat(-1, 1)

-----------------------------------------------------------------------------
(* String.prototype.toLowerCase: the Unicode lower-case mapping of the code *)
(* units U+0000..U+00FF and of the Greek capitals U+0391..U+03A9, one unit  *)
(* at a time.  (No input of this model holds a unit outside these ranges,   *)
(* or a capital sigma in final position, whose lower-case form depends on   *)
(* its context.)                                                            *)

lowerUnit(c) ==
    IF c \in 65..90 THEN c + 32                        \* A-Z
    ELSE IF c \in (192..222) \ {215} THEN c + 32       \* Latin-1 capitals
    ELSE IF c \in (913..939) \ {930} THEN c + 32       \* Greek capitals
    ELSE c

toLowerCaseIdentity(s) == s

toLowerCase(s) == [i \in 1..Len(s) |-> lowerUnit(s[i])]

-----------------------------------------------------------------------------
(* levenshteinDistance *)

\* The matrix is held as the sequence of its rows and a row as the sequence
\* of its cells, both 0-based in the source: matrix[i][j] of the source is
\* matrix[i + 1][j + 1] here.  A row that the source allocates at lines 12-15
\* with only its column 0 assigned is <<i>> until the inner loop fills it.

\* mutant of firstRow: row 0 is left at zero
firstRowZero(an) == [j \in 1..(an + 1) |-> 0]

\* lines 16-19: row 0 holds the column indices 0..an
firstRow(an) == [j \in 1..(an + 1) |-> j - 1]

\* mutants of cell: no substitution step; a case-insensitive comparison
cellNoSubstitution(s, t, prevRow, row, i, j) ==
    IF t[i] = s[j]
    THEN prevRow[j]
    ELSE Min(row[j] + 1, prevRow[j + 1] + 1)

cellCaseFold(s, t, prevRow, row, i, j) ==
    IF lowerUnit(t[i]) = lowerUnit(s[j])
    THEN prevRow[j]
    ELSE Min(prevRow[j] + 1, Min(row[j] + 1, prevRow[j + 1] + 1))

\* mutant of cell: an insertion costs 2
cellCostlyInsertion(s, t, prevRow, row, i, j) ==
    IF t[i] = s[j]
    THEN prevRow[j]
    ELSE Min(prevRow[j] + 1, Min(row[j] + 2, prevRow[j + 1] + 1))

\* lines 22-32: the value stored in matrix[i][j]; prevRow is matrix[i - 1]
\* and row holds matrix[i][0..j-1]
cell(s, t, prevRow, row, i, j) ==
    IF t[i] = s[j]
    THEN prevRow[j]
    ELSE Min(prevRow[j] + 1,            \* substitution
             Min(row[j] + 1,            \* insertion
                 prevRow[j + 1] + 1))   \* deletion

\* lines 21-33: the inner loop over the columns j = Len(row) .. an of row i.
\* (The extended row is bound as an element of a singleton set, which makes
\* it a computed value in the next iteration.)
RECURSIVE fillRow(_, _, _, _, _)
fillRow(s, t, prevRow, row, i) ==
    IF Len(row) > Len(s) THEN row
    ELSE CHOOSE filled \in
            {fillRow(s, t, prevRow, next, i) :
                next \in {Append(row, cell(s, t, prevRow, row, i, Len(row)))}} : TRUE

\* lines 20-34: the outer loop over the rows i = Len(matrix) .. bn
RECURSIVE fillMatrix(_, _, _)
fillMatrix(s, t, matrix) ==
    IF Len(matrix) > Len(t) THEN matrix
    ELSE CHOOSE filled \in
            {fillMatrix(s, t, next) :
                next \in {Append(matrix,
                            fillRow(s, t, matrix[Len(matrix)], <<Len(matrix)>>, Len(matrix)))}} : TRUE

\* An argument that was omitted (or passed as undefined): a one-element
\* sequence that holds no code unit, so that it differs from every string.
undefined == <<-1>>

\* mutant of defaultParam: no default value
defaultParamMissing(x) == x

\* line 2: the default value '' of a parameter
defaultParam(x) == IF x = undefined THEN <<>> ELSE x

levenshteinDistance(a0, b0) ==
    LET s == defaultParam(a0)
        t == defaultParam(b0)
        an == IF s # <<>> THEN Len(s) ELSE 0
        bn == IF t # <<>> THEN Len(t) ELSE 0
    IN  IF an = 0 THEN bn
        ELSE IF bn = 0 THEN an
        ELSE fillMatrix(s, t, <<firstRow(an)>>)[bn + 1][an + 1]

-----------------------------------------------------------------------------
(* similarity *)

\* mutant of similarity: Math.min for Math.max
similarityMinLen(distance, len1, len2) ==
    LET minLen == Min(len1, len2)
    IN  IF minLen = 0 THEN One
        ELSE Rat(minLen - distance, minLen)

similarity(distance, len1, len2) ==
    LET maxLen == Max(len1, len2)
    IN  IF maxLen = 0 THEN One
        ELSE Rat(maxLen - distance, maxLen)

-----------------------------------------------------------------------------
(* findBestMatch *)

Null == [isNull |-> TRUE]

\* what the caller sees when an exception leaves the function
TypeError == [name |-> "TypeError"]

\* The extractor of the tests, p => p.productName.  Applied to null it throws
\* (the marker <<-2>>); applied to a record without a productName it returns
\* undefined.
keyExtractor(candidate) ==
    IF candidate = Null THEN <<-2>> ELSE candidate.productName

\* mutant of scoreOf: the candidate text is not lower-cased
scoreOfNoFold(targetLower, candidateText) ==
    LET distance == levenshteinDistance(targetLower, candidateText)
    IN  similarity(distance, Len(targetLower), Len(candidateText))

\* lines 54-57: the score of one candidate text against the lower-cased target
scoreOf(targetLower, candidateText) ==
    LET candidateLower == toLowerCase(candidateText)
        distance == levenshteinDistance(targetLower, candidateLower)
    IN  similarity(distance, Len(targetLower), Len(candidateLower))

\* mutant of track: >= for >, so that a later tie replaces the earlier one
trackLast(locals, candidate, score) ==
    IF ~Greater(locals.highScore, score)
    THEN [locals EXCEPT !.highScore = score, !.bestMatch = candidate]
    ELSE locals

\* lines 59-62: the update of the loop's locals by one candidate
track(locals, candidate, score) ==
    IF Greater(score, locals.highScore)
    THEN [locals EXCEPT !.highScore = score, !.bestMatch = candidate]
    ELSE locals

\* lines 53-63: the loop over the candidates, from index k on
RECURSIVE scan(_, _, _, _)
scan(targetLower, cands, k, locals) ==
    IF k > Len(cands) THEN locals
    ELSE LET candidate == cands[k]
             candidateText == keyExtractor(candidate)
             counted == [locals EXCEPT !.calls = @ + 1]
         IN  IF candidateText = <<-2>> \/ candidateText = undefined
             THEN \* line 54 throws, or undefined.toLowerCase() of line 55 does;
                  \* there is no try around either
                  [counted EXCEPT !.thrown = TRUE]
             ELSE scan(targetLower, cands, k + 1,
                       track(counted, candidate, scoreOf(targetLower, candidateText)))

\* mutants of accept: >= 0.5 for > 0.5; no threshold at all
acceptAtHalf(locals) ==
    IF locals.bestMatch # Null /\ ~Greater(Half, locals.highScore)
    THEN [bestMatch |-> locals.bestMatch, score |-> locals.highScore]
    ELSE Null

acceptAny(locals) ==
    IF locals.bestMatch # Null
    THEN [bestMatch |-> locals.bestMatch, score |-> locals.highScore]
    ELSE Null

\* lines 65-69: the acceptance threshold
accept(locals) ==
    IF locals.bestMatch # Null /\ Greater(locals.highScore, Half)
    THEN [bestMatch |-> locals.bestMatch, score |-> locals.highScore]
    ELSE Null

\* the loop's locals on entry (lines 50-51)
noMatchYet == [bestMatch |-> Null, highScore |-> MinusOne, calls |-> 0, thrown |-> FALSE]

\* mutant of findBestMatch: the guard of line 47 is missing
findBestMatchNoGuard(query, cands) ==
    LET targetLower == toLowerCase(query)
        locals == scan(targetLower, cands, 1, noMatchYet)
    IN  [value |-> IF locals.thrown THEN TypeError ELSE accept(locals),
         calls |-> locals.calls]

\* mutant of findBestMatch: an exception of the loop is caught and the best
\* match so far is returned
findBestMatchCatching(query, cands) ==
    IF Len(query) = 0 \/ Len(cands) = 0
    THEN [value |-> Null, calls |-> 0]
    ELSE LET targetLower == toLowerCase(query)
             locals == scan(targetLower, cands, 1, noMatchYet)
         IN  [value |-> accept(locals), calls |-> locals.calls]

\* the value returned (or the exception that reaches the caller), and the
\* number of key-extractor invocations made
findBestMatch(query, cands) ==
    IF Len(query) = 0 \/ Len(cands) = 0
    THEN [value |-> Null, calls |-> 0]
    ELSE LET targetLower == toLowerCase(query)
             locals == scan(targetLower, cands, 1, noMatchYet)
         IN  [value |-> IF locals.thrown THEN TypeError ELSE accept(locals),
              calls |-> locals.calls]

-----------------------------------------------------------------------------
(* The state machine: one invocation of one function on drawn inputs *)

Pending == [pending |-> TRUE]

\* Part 1 runs no task
NoTasks ==
    /\ tasks = <<>>
    /\ slots = <<>>

\* Parts 1 and 2 run without the application
NoApp ==
    /\ appState = "AWAITING_MASTER_DATA"
    /\ masterData = Null
    /\ batchData = <<>>
    /\ processedFiles = <<>>
    /\ failedFiles = <<>>
    /\ currentIndex = 0
    /\ processingStatus = Null
    /\ error = Null
    /\ localStorage = Null
    /\ uploads = <<>>
    /\ returned = Null
    /\ loaded = Null

Init ==
    /\ NoTasks
    /\ NoApp
    /\ pc = "call"
    /\ ret = Pending
    /\ keyExtractorCalls = 0
    /\ \/ /\ fn = "levenshteinDistance"
          /\ a \in Strings \cup {undefined}
          /\ b \in Strings \cup {undefined}
          /\ target = <<>>
          /\ candidates = <<>>
       \/ /\ fn = "similarity"
          /\ a \in Strings
          /\ b \in Strings
          /\ target = <<>>
          /\ candidates = <<>>
       \/ /\ fn = "findBestMatch"
          /\ a = <<>>
          /\ b = <<>>
          /\ target \in Queries
          /\ candidates \in CandidateLists

CallLevenshteinDistance ==
    /\ pc = "call"
    /\ fn = "levenshteinDistance"
    /\ ret' = levenshteinDistance(a, b)
    /\ pc' = "done"
    /\ UNCHANGED <<fn, a, b, target, candidates, keyExtractorCalls, taskVars, appVars>>

\* lines 48, 55-57 applied to the pair (a, b): similarity is private to the
\* module, and its both-empty branch (line 41) is not reachable through
\* findBestMatch, whose guard (line 47) rejects the empty query.
CallSimilarity ==
    /\ pc = "call"
    /\ fn = "similarity"
    /\ ret' = scoreOf(toLowerCase(a), b)
    /\ pc' = "done"
    /\ UNCHANGED <<fn, a, b, target, candidates, keyExtractorCalls, taskVars, appVars>>

CallFindBestMatch ==
    /\ pc = "call"
    /\ fn = "findBestMatch"
    /\ LET r == findBestMatch(target, candidates)
       IN  /\ ret' = r.value
           /\ keyExtractorCalls' = r.calls
    /\ pc' = "done"
    /\ UNCHANGED <<fn, a, b, target, candidates, taskVars, appVars>>

Next ==
    \/ CallLevenshteinDistance
    \/ CallSimilarity
    \/ CallFindBestMatch

Spec == Init /\ [][Next]_vars

-----------------------------------------------------------------------------
(* findBestMatch on candidate lists that break the extractor's contract *)

\* a null entry of the list, and a record that lacks its productName
brokenCandidates == {Null, [productCode |-> 0, productName |-> undefined]}

BrokenLists ==
    LET entries == {[productCode |-> 0, productName |-> l] : l \in Labels}
                        \cup brokenCandidates
        numbered(list) == [i \in 1..Len(list) |->
                            IF list[i] = Null THEN Null
                            ELSE [list[i] EXCEPT !.productCode = i]]
    IN  {numbered(list) : list \in UNION {[1..k -> entries] : k \in 0..MaxCands}}

InitBroken ==
    /\ NoTasks
    /\ NoApp
    /\ pc = "call"
    /\ ret = Pending
    /\ keyExtractorCalls = 0
    /\ fn = "findBestMatch"
    /\ a = <<>>
    /\ b = <<>>
    /\ target \in StringsOver(Alphabet, MaxQueryLen)
    /\ candidates \in BrokenLists

NextBroken == CallFindBestMatch

SpecBroken == InitBroken /\ [][NextBroken]_vars

-----------------------------------------------------------------------------
(* Part 2: invocations run statement by statement by interleaved tasks *)

MaxTaskLen == 1     \* longest string a task gives to levenshteinDistance
MaxTaskCands == 1   \* longest candidate list a task gives to findBestMatch

\* 'a', 'b'
TaskAlphabet == {97, 98}
TaskStrings == StringsOver(TaskAlphabet, MaxTaskLen)
\* the queries 'A' and 'b' and the empty query; the product names 'a', 'b'
TaskQueries == {<<>>, <<65>>, <<98>>}
TaskLabels == {<<97>>, <<98>>}
TaskLists ==
    {Catalog(names) : names \in UNION {[1..k -> TaskLabels] : k \in 0..MaxTaskCands}}

\* an invocation about to start: its arguments and its position
NewTask(f, s, t, query, cands) ==
    [fn |-> f, a |-> s, b |-> t, target |-> query, candidates |-> cands,
     pc |-> "call", i |-> 0, j |-> 0, ret |-> Pending]

DistanceTasks(strings) ==
    {NewTask("levenshteinDistance", s, t, <<>>, <<>>) : s \in strings, t \in strings}
MatchTasks(queries, lists) ==
    {NewTask("findBestMatch", <<>>, <<>>, q, l) : q \in queries, l \in lists}

\* the value with which an invocation has returned (or the exception thrown)
value(v) == [value |-> v]

\* the locals of an invocation that has not allocated any
NoLocals == [matrix |-> <<>>, bestMatch |-> Null, highScore |-> MinusOne]

\* mutant of frame: one module-level set of locals used by every invocation
frameShared(id) == 1

\* lines 11, 50-51: matrix, bestMatch and highScore are declared inside the
\* function body, so every invocation has locals of its own
frame(id) == id

\* the value of an array hole (undefined) and of arithmetic on it
NaN == 0 - 1

\* matrix[i] exists; matrix[i][j], read as JavaScript reads it
hasRow(matrix, i) == (i + 1) \in DOMAIN matrix
read(matrix, i, j) ==
    IF hasRow(matrix, i) /\ j \in DOMAIN matrix[i + 1] THEN matrix[i + 1][j] ELSE NaN
plusOne(x) == IF x = NaN THEN NaN ELSE x + 1
mathMin(x, y) == IF x = NaN \/ y = NaN THEN NaN ELSE Min(x, y)

\* lines 11-19: rows 0..bn, each with its column 0 set, and the first row
newMatrix(an, bn) ==
    [r \in 1..(bn + 1) |->
        IF r = 1 THEN [j \in 0..an |-> j] ELSE [j \in {0} |-> r - 1]]

\* lines 22-32: the value assigned to matrix[i][j]
cellAt(matrix, s, t, i, j) ==
    IF t[i] = s[j]
    THEN read(matrix, i - 1, j - 1)
    ELSE mathMin(plusOne(read(matrix, i - 1, j - 1)),
                 mathMin(plusOne(read(matrix, i, j - 1)),
                         plusOne(read(matrix, i - 1, j))))

\* mutant of increment: the loop variable is not advanced
incrementStuck(i) == i

\* ++i, ++j and the advance of the for-of loop
increment(i) == i + 1

InitTasksFrom(ids, inputs) ==
    /\ fn = "none"
    /\ a = <<>>
    /\ b = <<>>
    /\ target = <<>>
    /\ candidates = <<>>
    /\ pc = "idle"
    /\ ret = Pending
    /\ keyExtractorCalls = 0
    /\ NoApp
    /\ tasks \in [ids -> inputs]
    /\ slots = [id \in ids |-> NoLocals]

\* lines 3-10
DistanceEnter(id) ==
    LET task == tasks[id]
        an == IF task.a # <<>> THEN Len(task.a) ELSE 0
        bn == IF task.b # <<>> THEN Len(task.b) ELSE 0
    IN  /\ task.fn = "levenshteinDistance"
        /\ task.pc = "call"
        /\ tasks' = [tasks EXCEPT ![id] =
                IF an = 0 THEN [task EXCEPT !.pc = "done", !.ret = value(bn)]
                ELSE IF bn = 0 THEN [task EXCEPT !.pc = "done", !.ret = value(an)]
                ELSE [task EXCEPT !.pc = "allocate"]]
        /\ UNCHANGED <<matcherVars, slots, appVars>>

\* lines 11-19
DistanceAllocate(id) ==
    LET task == tasks[id]
    IN  /\ task.pc = "allocate"
        /\ slots' = [slots EXCEPT ![frame(id)].matrix = newMatrix(Len(task.a), Len(task.b))]
        /\ tasks' = [tasks EXCEPT ![id] = [task EXCEPT !.pc = "fill", !.i = 1, !.j = 1]]
        /\ UNCHANGED <<matcherVars, appVars>>

\* lines 20-34: one assignment to matrix[i][j] and the step of the loops
DistanceFill(id) ==
    LET task == tasks[id]
        matrix == slots[frame(id)].matrix
        i == task.i
        j == task.j
    IN  /\ task.pc = "fill"
        /\ IF ~hasRow(matrix, i)
           THEN \* matrix[i] is undefined: the assignment throws
                /\ tasks' = [tasks EXCEPT ![id] =
                                [task EXCEPT !.pc = "done", !.ret = value(TypeError)]]
                /\ UNCHANGED slots
           ELSE /\ slots' = [slots EXCEPT ![frame(id)].matrix[i + 1] =
                                (j :> cellAt(matrix, task.a, task.b, i, j)) @@ @]
                /\ tasks' = [tasks EXCEPT ![id] =
                        IF j < Len(task.a) THEN [task EXCEPT !.j = increment(j)]
                        ELSE IF i < Len(task.b)
                             THEN [task EXCEPT !.i = increment(i), !.j = 1]
                             ELSE [task EXCEPT !.pc = "return"]]
        /\ UNCHANGED <<matcherVars, appVars>>

\* line 35
DistanceReturn(id) ==
    LET task == tasks[id]
    IN  /\ task.pc = "return"
        /\ task.fn = "levenshteinDistance"
        /\ tasks' = [tasks EXCEPT ![id] =
                [task EXCEPT !.pc = "done",
                             !.ret = value(read(slots[frame(id)].matrix,
                                                Len(task.b), Len(task.a)))]]
        /\ UNCHANGED <<matcherVars, slots, appVars>>

\* lines 47-51
MatchEnter(id) ==
    LET task == tasks[id]
    IN  /\ task.fn = "findBestMatch"
        /\ task.pc = "call"
        /\ IF Len(task.target) = 0 \/ Len(task.candidates) = 0
           THEN /\ tasks' = [tasks EXCEPT ![id] = [task EXCEPT !.pc = "done", !.ret = value(Null)]]
                /\ UNCHANGED slots
           ELSE /\ tasks' = [tasks EXCEPT ![id] = [task EXCEPT !.pc = "loop", !.i = 1]]
                /\ slots' = [slots EXCEPT ![frame(id)].bestMatch = Null,
                                          ![frame(id)].highScore = MinusOne]
        /\ UNCHANGED <<matcherVars, appVars>>

\* lines 53-63: one candidate, or the end of the loop
MatchLoop(id) ==
    LET task == tasks[id]
    IN  /\ task.pc = "loop"
        /\ IF task.i > Len(task.candidates)
           THEN /\ tasks' = [tasks EXCEPT ![id] = [task EXCEPT !.pc = "threshold"]]
                /\ UNCHANGED slots
           ELSE LET candidate == task.candidates[task.i]
                    candidateText == keyExtractor(candidate)
                IN  \E score \in {scoreOf(toLowerCase(task.target), candidateText)} :
                        /\ slots' = [slots EXCEPT ![frame(id)] = track(@, candidate, score)]
                        /\ tasks' = [tasks EXCEPT ![id] =
                                        [task EXCEPT !.i = increment(task.i)]]
        /\ UNCHANGED <<matcherVars, appVars>>

\* lines 65-69
MatchThreshold(id) ==
    LET task == tasks[id]
    IN  /\ task.pc = "threshold"
        /\ tasks' = [tasks EXCEPT ![id] =
                [task EXCEPT !.pc = "done", !.ret = value(accept(slots[frame(id)]))]]
        /\ UNCHANGED <<matcherVars, slots, appVars>>

NextTasks ==
    \/ \E id \in DOMAIN tasks : DistanceEnter(id)
    \/ \E id \in DOMAIN tasks : DistanceAllocate(id)
    \/ \E id \in DOMAIN tasks : DistanceFill(id)
    \/ \E id \in DOMAIN tasks : DistanceReturn(id)
    \/ \E id \in DOMAIN tasks : MatchEnter(id)
    \/ \E id \in DOMAIN tasks : MatchLoop(id)
    \/ \E id \in DOMAIN tasks : MatchThreshold(id)

\* two tasks on small inputs, their steps interleaved in every order
InitTasks ==
    InitTasksFrom({1, 2}, DistanceTasks(TaskStrings) \cup MatchTasks(TaskQueries, TaskLists))

SpecTasks == InitTasks /\ [][NextTasks]_vars

\* one task, on the strings and the enumerated candidate lists of Part 1; a
\* started invocation keeps running
InitOneTask ==
    InitTasksFrom({1},
        DistanceTasks(Strings)
            \cup MatchTasks(TaskQueries,
                            {l \in CandidateLists : \A k \in 1..Len(l) : l[k].productName \in Labels}))

SpecOneTask == InitOneTask /\ [][NextTasks]_vars /\ WF_vars(NextTasks)

-----------------------------------------------------------------------------
(* Part 3: the application state (context/AppContext) and its handlers      *)
(* (context/useAppLogic), with services/apiService.processInChunks          *)

MaxFiles == 2       \* longest list of files given to handleFilesUpload

\* a File, reduced to its name; the k-th file of every upload is named k
File(k) == [name |-> k]
FileLists == {[k \in 1..n |-> File(k)] : n \in 0..MaxFiles}

\* the strings of the hook's tests
cuit30_111_1 == <<51, 48, 45, 49, 49, 49, 45, 49>>
CocaCola == <<67, 111, 99, 97, 45, 67, 111, 108, 97>>
CocaCo == <<67, 111, 99, 97, 45, 67, 111>>
notAvailable == <<78, 47, 65>>

\* a MasterDatabase: the entries of the Map in insertion order
MasterDatabase(entries) == [entries |-> entries]
mockDb ==
    MasterDatabase(<<[cuit |-> cuit30_111_1,
                      supplier |-> [supplierCode |-> "P1",
                                    supplierName |-> "Proveedor 1",
                                    products |-> <<[productCode |-> "C100",
                                                    productName |-> CocaCola]>>]]>>)
emptyDb == MasterDatabase(<<>>)
Databases == {mockDb, emptyDb}

\* what processSingleFile resolves to for a file: the OCR data of the
\* document (its invoice number stands for its content), a response body
\* that is null, or a failure
ocrDataOf(file) ==
    [cuit |-> cuit30_111_1,
     invoiceNumber |-> file.name,
     items |-> <<[description |-> CocaCo, quantity |-> 2, unitPrice |-> 100, total |-> 200]>>]
Responses(file) ==
    {[success |-> TRUE, file |-> file, data |-> ocrDataOf(file)],
     [success |-> TRUE, file |-> file, data |-> Null],
     [success |-> FALSE, file |-> file, reason |-> "API Error"]}

\* String.prototype.replace(/-/g, '')
removeHyphens(s) == SelectSeq(s, LAMBDA c : c # 45)

\* mutant of identifySupplier: the keys of the Map are compared as they are
RECURSIVE identifySupplierExact(_, _, _)
identifySupplierExact(entries, normalizedCuit, k) ==
    IF k > Len(entries) THEN undefined
    ELSE IF entries[k].cuit = normalizedCuit THEN entries[k].cuit
    ELSE identifySupplierExact(entries, normalizedCuit, k + 1)

\* lines 55-60: the first key of the Map equal to the CUIT up to hyphens
RECURSIVE identifySupplier(_, _, _)
identifySupplier(entries, normalizedCuit, k) ==
    IF k > Len(entries) THEN undefined
    ELSE IF removeHyphens(entries[k].cuit) = normalizedCuit THEN entries[k].cuit
    ELSE identifySupplier(entries, normalizedCuit, k + 1)

\* Map.prototype.get
get(entries, key) ==
    entries[CHOOSE k \in 1..Len(entries) : entries[k].cuit = key].supplier

\* lines 64-86: one line item; supplierInfo is Null when no supplier was found
matchedItem(ocrItem, itemIndex, supplierInfo) ==
    LET defaultItem ==
            [id |-> <<"item", itemIndex>>,      \* without its Date.now() part
             ocrDescription |-> ocrItem.description,
             ocrQuantity |-> ocrItem.quantity,
             ocrUnitPrice |-> ocrItem.unitPrice,
             productCode |-> "",
             productName |-> notAvailable,
             quantity |-> ocrItem.quantity,
             unitPrice |-> ocrItem.unitPrice,
             total |-> ocrItem.total,
             matchScore |-> Zero]
        bestMatch == findBestMatch(ocrItem.description, supplierInfo.products).value
    IN  IF supplierInfo # Null /\ bestMatch # Null
        THEN [defaultItem EXCEPT !.productCode = bestMatch.bestMatch.productCode,
                                 !.productName = bestMatch.bestMatch.productName,
                                 !.matchScore = bestMatch.score]
        ELSE defaultItem

\* obj.key || fallback, for a property that is a string or an array
orElse(obj, key, fallback) ==
    IF key \in DOMAIN obj /\ obj[key] # <<>> THEN obj[key] ELSE fallback

\* { ...obj, ...over }
spread(obj, over) ==
    [key \in DOMAIN obj \cup DOMAIN over |->
        IF key \in DOMAIN over THEN over[key] ELSE obj[key]]

\* lines 44-96: the result record of one file
processAndMapFile(file, result, database) ==
    IF ~result.success
    THEN [success |-> FALSE, file |-> file, reason |-> result.reason]
    ELSE IF result.data = Null
    THEN \* ocrData.cuit throws inside the try of line 51
         [success |-> FALSE, file |-> file,
          reason |-> "Cannot read properties of null (reading 'cuit')"]
    ELSE LET ocrData == result.data
             normalizedCuit == removeHyphens(orElse(ocrData, "cuit", <<>>))
             identifiedSupplierCuit == identifySupplier(database.entries, normalizedCuit, 1)
             supplierInfo ==
                IF identifiedSupplierCuit # undefined /\ identifiedSupplierCuit # <<>>
                THEN get(database.entries, identifiedSupplierCuit)
                ELSE Null
             items == orElse(ocrData, "items", <<>>)
             matchedItems ==
                [k \in 1..Len(items) |-> matchedItem(items[k], k - 1, supplierInfo)]
         IN  [success |-> TRUE, file |-> file,
              data |-> spread(ocrData,
                              [items |-> matchedItems,
                               identifiedSupplierCuit |-> identifiedSupplierCuit,
                               usePreloadedCatalog |-> FALSE])]

\* line 98
CHUNK_SIZE == 5

\* mutant of chunkOf: items.slice(i), every item that is left
chunkOfRest(n, i, chunkSize) == (i + 1)..n

\* apiService lines 39-40: the indices (from 1) of items.slice(i, i + chunkSize)
chunkOf(n, i, chunkSize) == (i + 1)..Min(i + chunkSize, n)

\* apiService lines 43-45: Promise.all gives the results in the chunk's order
RECURSIVE chunkResults(_, _, _)
chunkResults(settled, from, to) ==
    IF from > to THEN <<>>
    ELSE <<settled[from]>> \o chunkResults(settled, from + 1, to)

\* Array.prototype.filter, on result records
successes(results) == SelectSeq(results, LAMBDA r : r.success)
failures(results) == SelectSeq(results, LAMBDA r : ~r.success)

\* mutant of stateAfter: the batch is shown for review even when it is empty
stateAfterAlwaysReviewing(successfulInvoices) == "REVIEWING"

\* lines 110-116
stateAfter(successfulInvoices) ==
    IF Len(successfulInvoices) > 0 THEN "REVIEWING" ELSE "ERROR"

\* AppContext lines 29-36
InitApp ==
    /\ NoTasks
    /\ fn = "none"
    /\ a = <<>>
    /\ b = <<>>
    /\ target = <<>>
    /\ candidates = <<>>
    /\ pc = "idle"
    /\ ret = Pending
    /\ keyExtractorCalls = 0
    /\ NoApp

\* mutant of HandleMasterDataLoad: without the try of lines 24-29 the
\* exception of setItem leaves the handler before line 30
HandleMasterDataLoadUncaught(data, saved) ==
    /\ masterData' = data
    /\ localStorage' = IF saved THEN data ELSE localStorage
    /\ appState' = IF saved THEN "IDLE" ELSE appState
    /\ returned' = Null
    /\ loaded' = [data |-> data, saved |-> saved, from |-> appState]
    /\ UNCHANGED <<batchData, processedFiles, failedFiles, currentIndex,
                   processingStatus, error, uploads, matcherVars, taskVars>>

\* lines 22-31; saved is FALSE when localStorage.setItem throws (the catch
\* of line 27 logs the error).  loaded records the call: its argument,
\* whether setItem succeeded, and the appState it was made in.
HandleMasterDataLoad(data, saved) ==
    /\ masterData' = data
    /\ localStorage' = IF saved THEN data ELSE localStorage
    /\ appState' = "IDLE"
    /\ returned' = Null
    /\ loaded' = [data |-> data, saved |-> saved, from |-> appState]
    /\ UNCHANGED <<batchData, processedFiles, failedFiles, currentIndex,
                   processingStatus, error, uploads, matcherVars, taskVars>>

\* lines 101-116: what follows the await of line 99 for the call and its results
Complete(call, results) ==
    LET successfulInvoices == [k \in 1..Len(successes(results)) |-> successes(results)[k].data]
        successfulFiles == [k \in 1..Len(successes(results)) |-> successes(results)[k].file]
        failedFilesResult ==
            [k \in 1..Len(failures(results)) |->
                [name |-> failures(results)[k].file.name,
                 reason |-> failures(results)[k].reason]]
    IN  /\ processingStatus' = Null
        /\ batchData' = successfulInvoices
        /\ processedFiles' = successfulFiles
        /\ failedFiles' = failedFilesResult
        /\ appState' = stateAfter(successfulInvoices)
        /\ IF Len(successfulInvoices) > 0
           THEN /\ currentIndex' = 0
                /\ UNCHANGED error
           ELSE /\ error' = [message |-> "Falló el procesamiento de todos los documentos.",
                             count |-> Len(call.files)]
                /\ UNCHANGED currentIndex
        /\ returned' = [files |-> call.files, results |-> results]
        /\ loaded' = Null

\* lines 33-99, up to the first await that has to wait: the guard, the three
\* setters and the calls of processInChunks for the first chunk.  With no
\* file nothing is awaited and lines 101-116 follow at once.  (A call is
\* made while no earlier call is awaiting its results.)
HandleFilesUpload(files) ==
    /\ uploads = <<>>
    /\ UNCHANGED <<masterData, localStorage, matcherVars, taskVars>>
    /\ IF masterData = Null
       THEN /\ error' = [message |-> "La base de datos maestra no está cargada.", count |-> 0]
            /\ appState' = "ERROR"
            /\ returned' = Null
            /\ loaded' = Null
            /\ UNCHANGED <<batchData, processedFiles, failedFiles, currentIndex,
                           processingStatus, uploads>>
       ELSE LET call == [files |-> files, database |-> masterData,
                         i |-> 0, settled |-> <<>>, results |-> <<>>]
            IN  IF Len(files) = 0
                THEN /\ Complete(call, <<>>)
                     /\ UNCHANGED uploads
                ELSE /\ appState' = "PROCESSING"
                     /\ error' = Null
                     /\ processingStatus' = [processing |-> Len(files)]
                     /\ uploads' = Append(uploads, call)
                     /\ returned' = Null
                     /\ loaded' = Null
                     /\ UNCHANGED <<batchData, processedFiles, failedFiles, currentIndex>>

\* lines 44-96 for the k-th file of the u-th pending call, when its
\* processSingleFile resolves with the response; apiService lines 44-45 when
\* this was the last file of its chunk, followed by the next chunk (lines
\* 38-43) or by the return to lines 101-116
FileProcessed(u, k, response) ==
    LET call == uploads[u]
        n == Len(call.files)
        chunk == chunkOf(n, call.i, CHUNK_SIZE)
        result == processAndMapFile(call.files[k], response, call.database)
        settled == (k :> result) @@ call.settled
        results == call.results \o chunkResults(settled, call.i + 1, Min(call.i + CHUNK_SIZE, n))
    IN  /\ k \in chunk \ DOMAIN call.settled
        /\ response \in Responses(call.files[k])
        /\ UNCHANGED <<masterData, localStorage, matcherVars, taskVars>>
        /\ IF DOMAIN settled # chunk
           THEN /\ uploads' = [uploads EXCEPT ![u].settled = settled]
                /\ returned' = Null
                /\ loaded' = Null
                /\ UNCHANGED <<appState, batchData, processedFiles, failedFiles,
                               currentIndex, processingStatus, error>>
           ELSE IF call.i + CHUNK_SIZE < n
           THEN /\ uploads' = [uploads EXCEPT ![u] =
                        [call EXCEPT !.i = @ + CHUNK_SIZE, !.settled = <<>>, !.results = results]]
                /\ returned' = Null
                /\ loaded' = Null
                /\ UNCHANGED <<appState, batchData, processedFiles, failedFiles,
                               currentIndex, processingStatus, error>>
           ELSE /\ uploads' = SubSeq(uploads, 1, u - 1) \o SubSeq(uploads, u + 1, Len(uploads))
                /\ Complete(call, results)

\* lines 119-129
HandleFullReset ==
    /\ batchData' = <<>>
    /\ processedFiles' = <<>>
    /\ failedFiles' = <<>>
    /\ currentIndex' = 0
    /\ processingStatus' = Null
    /\ error' = Null
    /\ masterData' = Null
    /\ localStorage' = Null
    /\ appState' = "AWAITING_MASTER_DATA"
    /\ returned' = Null
    /\ loaded' = Null
    /\ UNCHANGED <<uploads, matcherVars, taskVars>>

\* lines 131-139
HandleResetBatch ==
    /\ batchData' = <<>>
    /\ processedFiles' = <<>>
    /\ failedFiles' = <<>>
    /\ currentIndex' = 0
    /\ processingStatus' = Null
    /\ error' = Null
    /\ appState' = "IDLE"
    /\ returned' = Null
    /\ loaded' = Null
    /\ UNCHANGED <<masterData, localStorage, uploads, matcherVars, taskVars>>

NextApp ==
    \/ \E data \in Databases, saved \in BOOLEAN : HandleMasterDataLoad(data, saved)
    \/ \E files \in FileLists : HandleFilesUpload(files)
    \/ \E u \in 1..Len(uploads), k \in 1..MaxFiles :
            \E response \in Responses(File(k)) : FileProcessed(u, k, response)
    \/ HandleFullReset
    \/ HandleResetBatch

SpecApp == InitApp /\ [][NextApp]_vars

-----------------------------------------------------------------------------
(* One invocation of processAndMapFile (useAppLogic lines 44-96) on a drawn  *)
(* response of processSingleFile and a drawn master database                 *)

MaxItems == 2       \* longest list of OCR items

\* CUITs and descriptions as the OCR reads them
cuit301111 == <<51, 48, 49, 49, 49, 49>>
cuit3_01111 == <<51, 45, 48, 49, 49, 49, 49>>
cuit999 == <<57, 57, 57>>
hyphen == <<45>>
Pepsi == <<80, 101, 112, 115, 105>>
OcrCuits == {cuit30_111_1, cuit301111, cuit3_01111, cuit999, <<>>}
OcrDescriptions == {CocaCo, CocaCola, Pepsi, <<>>}
OcrItems ==
    {[description |-> d, quantity |-> 2, unitPrice |-> 100, total |-> 200] :
        d \in OcrDescriptions}
OcrItemLists == UNION {[1..n -> OcrItems] : n \in 0..MaxItems}

\* the documents: with or without a CUIT, with or without a list of items
OcrDocuments ==
    {[cuit |-> c, invoiceNumber |-> 1, items |-> items] :
        c \in OcrCuits, items \in OcrItemLists}
    \cup {[invoiceNumber |-> 1, items |-> items] : items \in OcrItemLists}
    \cup {[cuit |-> c, invoiceNumber |-> 1] : c \in OcrCuits}

\* master databases as MasterUploader builds them (its parser skips the rows
\* whose CUIT is empty, lines 34-36): the one of the hook's test, one with
\* two keys that are equal up to hyphens, one whose key is a lone hyphen
twoKeysDb ==
    MasterDatabase(<<[cuit |-> cuit301111,
                      supplier |-> [supplierCode |-> "P0",
                                    supplierName |-> "Proveedor 0",
                                    products |-> <<[productCode |-> "C200",
                                                    productName |-> Pepsi]>>]],
                     [cuit |-> cuit30_111_1,
                      supplier |-> [supplierCode |-> "P1",
                                    supplierName |-> "Proveedor 1",
                                    products |-> <<[productCode |-> "C100",
                                                    productName |-> CocaCola]>>]]>>)
hyphenDb ==
    MasterDatabase(<<[cuit |-> hyphen,
                      supplier |-> [supplierCode |-> "P2",
                                    supplierName |-> "Proveedor 2",
                                    products |-> <<[productCode |-> "C100",
                                                    productName |-> CocaCola],
                                                   [productCode |-> "C200",
                                                    productName |-> Pepsi]>>]]>>)
MappingDatabases == {mockDb, emptyDb, twoKeysDb, hyphenDb}

\* a holds the response of processSingleFile, b the master database
InitMapping ==
    /\ NoTasks
    /\ NoApp
    /\ fn = "processAndMapFile"
    /\ a \in {[success |-> TRUE, file |-> File(1), data |-> d] : d \in OcrDocuments}
    /\ b \in MappingDatabases
    /\ target = <<>>
    /\ candidates = <<>>
    /\ pc = "call"
    /\ ret = Pending
    /\ keyExtractorCalls = 0

CallProcessAndMapFile ==
    /\ pc = "call"
    /\ fn = "processAndMapFile"
    /\ ret' = processAndMapFile(File(1), a, b)
    /\ pc' = "done"
    /\ UNCHANGED <<fn, a, b, target, candidates, keyExtractorCalls, taskVars, appVars>>

NextMapping == CallProcessAndMapFile

SpecMapping == InitMapping /\ [][NextMapping]_vars

-----------------------------------------------------------------------------
(* Part 4: the helpers of the server (server-utils.js): repairJson,          *)
(* normalizeData and fetchWithRetry                                          *)

MaxJsonLen == 4     \* longest enumerated argument of repairJson

\* the characters the regular expressions of repairJson tell apart:
\* { } ] , : ' " space and a word character
JsonAlphabet == {123, 125, 93, 44, 58, 39, 34, 32, 107}
JsonStrings == StringsOver(JsonAlphabet, MaxJsonLen)

\* the arguments of the tests of repairJson
keyUnquoted == <<123, 107, 101, 121, 58, 32, 34, 118, 97, 108, 117, 101, 34, 125>>
keySingleQuoted == <<123, 39, 107, 101, 121, 39, 58, 32, 39, 118, 97, 108, 117, 101, 39, 125>>
trailingCommaObject == <<123, 34, 107, 101, 121, 34, 58, 32, 34, 118, 97, 108, 117, 101, 34, 44, 125>>
trailingCommaArray == <<123, 34, 107, 101, 121, 34, 58, 32, 91, 34, 118, 97, 108, 117, 101, 34, 44, 93, 125>>
\* an array with two trailing commas; a single-quoted value and a
\* double-quoted key that hold a comma
twoTrailingCommas == <<91, 49, 44, 44, 93>>
commaInValue == <<123, 39, 97, 39, 58, 32, 39, 120, 44, 32, 121, 58, 32, 122, 39, 125>>
commaInKey == <<123, 34, 97, 44, 98, 34, 58, 49, 125>>
\* an object with an unquoted key and a double-quoted one
mixedKeys == <<123, 97, 58, 32, 49, 44, 32, 34, 98, 34, 58, 32, 50, 125>>
JsonFixtures ==
    {keyUnquoted, keySingleQuoted, trailingCommaObject, trailingCommaArray,
     twoTrailingCommas, commaInValue, commaInKey, mixedKeys}

\* the character classes \s and \w of a regular expression without the u flag
WhiteSpace ==
    {9, 10, 11, 12, 13, 32, 160, 5760, 8232, 8233, 8239, 8287, 12288, 65279}
        \cup (8192..8202)
WordCharacters == (48..57) \cup (65..90) \cup {95} \cup (97..122)

\* the end of the longest run of characters of the class that starts at i:
\* what a greedy \s* or \w* consumes (the classes and the characters that
\* follow them in the patterns are disjoint, so no match backtracks)
RECURSIVE skip(_, _, _)
skip(s, i, class) ==
    IF i <= Len(s) /\ s[i] \in class THEN skip(s, i + 1, class) ELSE i

\* mutant of quoteKeys: the pattern is /(,\s*)(\w+)(\s*:)/g, without the brace
RECURSIVE quoteKeysAfterComma(_, _)
quoteKeysAfterComma(s, i) ==
    IF i > Len(s) THEN <<>>
    ELSE LET j == skip(s, i + 1, WhiteSpace)
             k == skip(s, j, WordCharacters)
             l == skip(s, k, WhiteSpace)
         IN  IF s[i] = 44 /\ k > j /\ l <= Len(s) /\ s[l] = 58
             THEN SubSeq(s, i, j - 1) \o <<34>> \o SubSeq(s, j, k - 1) \o <<34>>
                    \o SubSeq(s, k, l) \o quoteKeysAfterComma(s, l + 1)
             ELSE <<s[i]>> \o quoteKeysAfterComma(s, i + 1)

\* line 25: .replace(/([{,]\s*)(\w+)(\s*:)/g, '$1"$2"$3'), from index i on
RECURSIVE quoteKeys(_, _)
quoteKeys(s, i) ==
    IF i > Len(s) THEN <<>>
    ELSE LET j == skip(s, i + 1, WhiteSpace)
             k == skip(s, j, WordCharacters)
             l == skip(s, k, WhiteSpace)
         IN  IF s[i] \in {123, 44} /\ k > j /\ l <= Len(s) /\ s[l] = 58
             THEN SubSeq(s, i, j - 1) \o <<34>> \o SubSeq(s, j, k - 1) \o <<34>>
                    \o SubSeq(s, k, l) \o quoteKeys(s, l + 1)
             ELSE <<s[i]>> \o quoteKeys(s, i + 1)

\* mutant of doubleQuotes: the pattern is /'/, without the g flag
doubleQuotesOnce(s) ==
    [i \in 1..Len(s) |->
        IF s[i] = 39 /\ (\A m \in 1..(i - 1) : s[m] # 39) THEN 34 ELSE s[i]]

\* line 26: .replace(/'/g, '"')
doubleQuotes(s) == [i \in 1..Len(s) |-> IF s[i] = 39 THEN 34 ELSE s[i]]

\* line 27: .replace(/,\s*([}\]])/g, '$1'), from index i on
RECURSIVE removeTrailingCommas(_, _)
removeTrailingCommas(s, i) ==
    IF i > Len(s) THEN <<>>
    ELSE LET j == skip(s, i + 1, WhiteSpace)
         IN  IF s[i] = 44 /\ j <= Len(s) /\ s[j] \in {125, 93}
             THEN <<s[j]>> \o removeTrailingCommas(s, j + 1)
             ELSE <<s[i]>> \o removeTrailingCommas(s, i + 1)

\* lines 23-28
repairJson(jsonString) ==
    removeTrailingCommas(doubleQuotes(quoteKeys(jsonString, 1)), 1)

\* one invocation of repairJson; a holds its argument
InitJson ==
    /\ NoTasks
    /\ NoApp
    /\ fn = "repairJson"
    /\ a \in JsonStrings \cup JsonFixtures
    /\ b = <<>>
    /\ target = <<>>
    /\ candidates = <<>>
    /\ pc = "call"
    /\ ret = Pending
    /\ keyExtractorCalls = 0

CallRepairJson ==
    /\ pc = "call"
    /\ fn = "repairJson"
    /\ ret' = repairJson(a)
    /\ pc' = "done"
    /\ UNCHANGED <<fn, a, b, target, candidates, keyExtractorCalls, taskVars, appVars>>

NextJson == CallRepairJson

SpecJson == InitJson /\ [][NextJson]_vars

-----------------------------------------------------------------------------
(* normalizeData (server-utils.js lines 31-67).  An object is the sequence   *)
(* of its properties [key, value] in the order for...in visits them; a       *)
(* value is tagged with its type, since a property may hold a number, a      *)
(* string, an array or an object, and undefinedValue is the value of a       *)
(* property that was not found.                                              *)

MaxKeys == 2        \* most properties of an enumerated object
MaxDateLen == 5     \* longest enumerated invoice date

number(n) == [number |-> n]
string(s) == [string |-> s]
array(elements) == [array |-> elements]
undefinedValue == [undefined |-> TRUE]

\* line 41: 'invoiceNumber', 'numero_factura', 'numero_comprobante'
invoiceNumberKeys ==
    <<<<105, 110, 118, 111, 105, 99, 101, 78, 117, 109, 98, 101, 114>>,
      <<110, 117, 109, 101, 114, 111, 95, 102, 97, 99, 116, 117, 114, 97>>,
      <<110, 117, 109, 101, 114, 111, 95, 99, 111, 109, 112, 114, 111, 98, 97, 110, 116, 101>>>>
\* line 42: 'invoiceDate', 'fecha_factura'
invoiceDateKeys ==
    <<<<105, 110, 118, 111, 105, 99, 101, 68, 97, 116, 101>>,
      <<102, 101, 99, 104, 97, 95, 102, 97, 99, 116, 117, 114, 97>>>>
\* line 43: 'supplierName', 'emisor_nombre', 'nombre_emisor'
supplierNameKeys ==
    <<<<115, 117, 112, 112, 108, 105, 101, 114, 78, 97, 109, 101>>,
      <<101, 109, 105, 115, 111, 114, 95, 110, 111, 109, 98, 114, 101>>,
      <<110, 111, 109, 98, 114, 101, 95, 101, 109, 105, 115, 111, 114>>>>
\* line 44: 'cuit', 'emisor_cuit', 'cuit_emisor'
cuitKeys ==
    <<<<99, 117, 105, 116>>,
      <<101, 109, 105, 115, 111, 114, 95, 99, 117, 105, 116>>,
      <<99, 117, 105, 116, 95, 101, 109, 105, 115, 111, 114>>>>
\* line 45: 'totalAmount', 'importe_total'
totalAmountKeys ==
    <<<<116, 111, 116, 97, 108, 65, 109, 111, 117, 110, 116>>,
      <<105, 109, 112, 111, 114, 116, 101, 95, 116, 111, 116, 97, 108>>>>
\* line 46: 'ivaPerception', 'percepcion_iva', 'percepciones_iva'
ivaPerceptionKeys ==
    <<<<105, 118, 97, 80, 101, 114, 99, 101, 112, 116, 105, 111, 110>>,
      <<112, 101, 114, 99, 101, 112, 99, 105, 111, 110, 95, 105, 118, 97>>,
      <<112, 101, 114, 99, 101, 112, 99, 105, 111, 110, 101, 115, 95, 105, 118, 97>>>>
\* line 47: 'grossIncomePerception', 'percepcion_ingresos_brutos'
grossIncomePerceptionKeys ==
    <<<<103, 114, 111, 115, 115, 73, 110, 99, 111, 109, 101, 80, 101, 114, 99, 101, 112, 116, 105, 111, 110>>,
      <<112, 101, 114, 99, 101, 112, 99, 105, 111, 110, 95, 105, 110, 103, 114, 101, 115, 111, 115, 95, 98, 114, 117, 116, 111, 115>>>>
\* line 57: 'items'
itemsKeys ==
    <<<<105, 116, 101, 109, 115>>>>
\* line 60: 'quantity', 'cantidad'
quantityKeys ==
    <<<<113, 117, 97, 110, 116, 105, 116, 121>>,
      <<99, 97, 110, 116, 105, 100, 97, 100>>>>
\* line 61: 'description', 'descripcion'
descriptionKeys ==
    <<<<100, 101, 115, 99, 114, 105, 112, 116, 105, 111, 110>>,
      <<100, 101, 115, 99, 114, 105, 112, 99, 105, 111, 110>>>>
\* line 62: 'unitPrice', 'precio_unitario'
unitPriceKeys ==
    <<<<117, 110, 105, 116, 80, 114, 105, 99, 101>>,
      <<112, 114, 101, 99, 105, 111, 95, 117, 110, 105, 116, 97, 114, 105, 111>>>>
\* line 63: 'total', 'importe_total', 'importe_total_item', 'importe_total_linea'
totalKeys ==
    <<<<116, 111, 116, 97, 108>>,
      <<105, 109, 112, 111, 114, 116, 101, 95, 116, 111, 116, 97, 108>>,
      <<105, 109, 112, 111, 114, 116, 101, 95, 116, 111, 116, 97, 108, 95, 105, 116, 101, 109>>,
      <<105, 109, 112, 111, 114, 116, 101, 95, 116, 111, 116, 97, 108, 95, 108, 105, 110, 101, 97>>>>

\* mutant of findValue: the names are compared as they are written
RECURSIVE findValueExact(_, _)
findValueExact(obj, keys) ==
    IF obj = <<>> THEN undefinedValue
    ELSE IF \E k \in 1..Len(keys) : keys[k] = Head(obj).key THEN Head(obj).value
    ELSE findValueExact(Tail(obj), keys)

\* lines 33-39: the value of the first property of obj whose lower-cased
\* name is the lower-cased form of one of the keys
RECURSIVE findValue(_, _)
findValue(obj, keys) ==
    IF obj = <<>> THEN undefinedValue
    ELSE IF \E k \in 1..Len(keys) : toLowerCase(keys[k]) = toLowerCase(Head(obj).key)
         THEN Head(obj).value
    ELSE findValue(Tail(obj), keys)

\* String.prototype.split(separator), for a separator of one character
RECURSIVE split(_, _)
split(s, separator) ==
    IF \A i \in 1..Len(s) : s[i] # separator THEN <<s>>
    ELSE LET i == CHOOSE i \in 1..Len(s) :
                    s[i] = separator /\ \A m \in 1..(i - 1) : s[m] # separator
         IN  <<SubSeq(s, 1, i - 1)>> \o split(SubSeq(s, i + 1, Len(s)), separator)

\* mutant of formatDate: the parts are joined in the order they were read
formatDateSameOrder(invoiceDate) ==
    IF "string" \in DOMAIN invoiceDate /\ invoiceDate.string # <<>>
    THEN LET parts == split(invoiceDate.string, 47)
         IN  IF Len(parts) = 3
             THEN string(parts[1] \o <<45>> \o parts[2] \o <<45>> \o parts[3])
             ELSE invoiceDate
    ELSE invoiceDate

\* lines 50-55: a non-empty string of three parts separated by '/' is
\* rewritten as the third, the second and the first joined by '-'
formatDate(invoiceDate) ==
    IF "string" \in DOMAIN invoiceDate /\ invoiceDate.string # <<>>
    THEN LET parts == split(invoiceDate.string, 47)
         IN  IF Len(parts) = 3
             THEN string(parts[3] \o <<45>> \o parts[2] \o <<45>> \o parts[1])
             ELSE invoiceDate
    ELSE invoiceDate

\* lines 59-64: one element of items; an element that is not an object has
\* no property to visit
normalizeItem(item) ==
    LET obj == IF "object" \in DOMAIN item THEN item.object ELSE <<>>
    IN  [quantity |-> findValue(obj, quantityKeys),
         description |-> findValue(obj, descriptionKeys),
         unitPrice |-> findValue(obj, unitPriceKeys),
         total |-> findValue(obj, totalKeys)]

\* lines 31-67; items is set only when the property found is an array
normalizeData(data) ==
    LET normalized ==
            [invoiceNumber |-> findValue(data, invoiceNumberKeys),
             invoiceDate |-> formatDate(findValue(data, invoiceDateKeys)),
             supplierName |-> findValue(data, supplierNameKeys),
             cuit |-> findValue(data, cuitKeys),
             totalAmount |-> findValue(data, totalAmountKeys),
             ivaPerception |-> findValue(data, ivaPerceptionKeys),
             grossIncomePerception |-> findValue(data, grossIncomePerceptionKeys)]
        itemsArray == findValue(data, itemsKeys)
    IN  IF "array" \in DOMAIN itemsArray
        THEN spread(normalized,
                    [items |-> [k \in 1..Len(itemsArray.array) |->
                                    normalizeItem(itemsArray.array[k])]])
        ELSE normalized

\* the object that normalizeData returned, as an argument: its properties in
\* the order lines 41-47 and 57-65 created them
property(key, v) == [key |-> key, value |-> v]
object(properties) == [object |-> properties]
itemAsObject(item) ==
    object(<<property(quantityKeys[1], item.quantity),
             property(descriptionKeys[1], item.description),
             property(unitPriceKeys[1], item.unitPrice),
             property(totalKeys[1], item.total)>>)
asObject(normalized) ==
    <<property(invoiceNumberKeys[1], normalized.invoiceNumber),
      property(invoiceDateKeys[1], normalized.invoiceDate),
      property(supplierNameKeys[1], normalized.supplierName),
      property(cuitKeys[1], normalized.cuit),
      property(totalAmountKeys[1], normalized.totalAmount),
      property(ivaPerceptionKeys[1], normalized.ivaPerception),
      property(grossIncomePerceptionKeys[1], normalized.grossIncomePerception)>>
    \o IF "items" \in DOMAIN normalized
       THEN <<property(itemsKeys[1],
                       array([k \in 1..Len(normalized.items) |->
                                itemAsObject(normalized.items[k])]))>>
       ELSE <<>>

\* the names of the properties of the enumerated objects: every alias, some
\* of them in another case, and names that are no alias
elements(seq) == {seq[k] : k \in DOMAIN seq}
KEY_CUIT == <<67, 85, 73, 84>>
KEY_Numero_Factura == <<78, 117, 109, 101, 114, 111, 95, 70, 97, 99, 116, 117, 114, 97>>
KEY_FECHA_FACTURA == <<70, 69, 67, 72, 65, 95, 70, 65, 67, 84, 85, 82, 65>>
KEY_ITEMS == <<73, 84, 69, 77, 83>>
KEY_CANTIDAD == <<67, 65, 78, 84, 73, 68, 65, 68>>
KEY_observaciones == <<111, 98, 115, 101, 114, 118, 97, 99, 105, 111, 110, 101, 115>>
DataKeys ==
    UNION {elements(invoiceNumberKeys), elements(invoiceDateKeys), elements(supplierNameKeys),
           elements(cuitKeys), elements(totalAmountKeys), elements(ivaPerceptionKeys),
           elements(grossIncomePerceptionKeys), elements(itemsKeys),
           {KEY_CUIT, KEY_Numero_Factura, KEY_FECHA_FACTURA, KEY_ITEMS, KEY_observaciones}}
ItemKeys ==
    UNION {elements(quantityKeys), elements(descriptionKeys), elements(unitPriceKeys),
           elements(totalKeys), {KEY_CANTIDAD, KEY_observaciones}}

\* the names of the properties of the objects with several properties:
\* aliases of one field in several forms, aliases of other fields, the
\* alias that totalAmount and an item's total share, and a name that is no
\* alias
SomeDataKeys ==
    {cuitKeys[1], cuitKeys[2], KEY_CUIT, KEY_observaciones, totalAmountKeys[2],
     invoiceNumberKeys[3], KEY_Numero_Factura, ivaPerceptionKeys[3], supplierNameKeys[3],
     grossIncomePerceptionKeys[2]}
SomeItemKeys ==
    {quantityKeys[1], quantityKeys[2], KEY_CANTIDAD, KEY_observaciones, totalKeys[1],
     totalKeys[2], unitPriceKeys[2]}

\* the objects of n properties with distinct names; the value of the k-th
\* property is the number k
ObjectsOver(names, n) ==
    {[k \in 1..n |-> property(order[k], number(k))] :
        order \in {o \in [1..n -> names] : \A i, j \in 1..n : i # j => o[i] # o[j]}}

\* the objects with one property of any name, and those with up to MaxKeys
\* properties
EnumeratedObjects(names, some) ==
    ObjectsOver(names, 1) \cup UNION {ObjectsOver(some, n) : n \in 0..MaxKeys}

\* the objects whose items hold one enumerated item, no item, two items, an
\* element that is no object, or no array at all
ItemsObjects ==
    {<<property(key, array(<<object(item)>>))>> :
        key \in {itemsKeys[1], KEY_ITEMS}, item \in EnumeratedObjects(ItemKeys, SomeItemKeys)}
    \cup {<<property(itemsKeys[1], array(<<>>))>>,
          <<property(itemsKeys[1], array(<<object(<<property(quantityKeys[2], number(1))>>),
                                           object(<<property(totalKeys[3], number(2))>>)>>))>>,
          <<property(itemsKeys[1], array(<<number(1)>>))>>,
          <<property(itemsKeys[1], number(1))>>,
          <<property(KEY_ITEMS, number(1)), property(itemsKeys[1], array(<<>>))>>}

\* the invoice dates: the strings over '/', '-' and a digit, those of the
\* tests, and dates that are not strings
DateAlphabet == {47, 45, 49}
date15_07_2023 == <<49, 53, 47, 48, 55, 47, 50, 48, 50, 51>>
date10_12_2023 == <<49, 48, 47, 49, 50, 47, 50, 48, 50, 51>>
date2023_07_15 == <<50, 48, 50, 51, 45, 48, 55, 45, 49, 53>>
DateStrings ==
    StringsOver(DateAlphabet, MaxDateLen) \cup {date15_07_2023, date10_12_2023, date2023_07_15}
DateObjects ==
    {<<property(key, string(date))>> :
        key \in elements(invoiceDateKeys) \cup {KEY_FECHA_FACTURA}, date \in DateStrings}
    \cup {<<property(invoiceDateKeys[1], number(20230715))>>}

\* the arguments of the tests (lines 32-48, 66-69 and 77 of the tests)
rawDataAliases ==
    <<property(invoiceNumberKeys[2], string(<<49, 50, 51>>)),
      property(invoiceDateKeys[2], string(date10_12_2023)),
      property(supplierNameKeys[2], string(<<84, 101, 115, 116, 32, 83, 117, 112, 112, 108, 105, 101, 114>>)),
      property(cuitKeys[2], string(<<51, 48, 45, 49, 50, 51, 52, 53, 54, 55, 56, 45, 57>>)),
      property(totalAmountKeys[2], number(100)),
      property(ivaPerceptionKeys[2], number(10)),
      property(grossIncomePerceptionKeys[2], number(5)),
      property(itemsKeys[1],
               array(<<object(<<property(quantityKeys[2], number(2)),
                                property(descriptionKeys[2], string(<<84, 101, 115, 116, 32, 73, 116, 101, 109>>)),
                                property(unitPriceKeys[2], number(25)),
                                property(totalKeys[3], number(50))>>)>>))>>
rawDataMissing ==
    <<property(invoiceNumberKeys[1], string(<<49, 50, 51>>)),
      property(itemsKeys[1], array(<<>>))>>
rawDataDate == <<property(invoiceDateKeys[1], string(date15_07_2023))>>

NormalizeArguments ==
    EnumeratedObjects(DataKeys, SomeDataKeys) \cup ItemsObjects \cup DateObjects
        \cup {rawDataAliases, rawDataMissing, rawDataDate}

\* one invocation of normalizeData, followed by one on what it returned;
\* a holds the argument and b the first result
InitNormalize ==
    /\ NoTasks
    /\ NoApp
    /\ fn = "normalizeData"
    /\ a \in NormalizeArguments
    /\ b = <<>>
    /\ target = <<>>
    /\ candidates = <<>>
    /\ pc = "call"
    /\ ret = Pending
    /\ keyExtractorCalls = 0

CallNormalizeData ==
    /\ pc = "call"
    /\ fn = "normalizeData"
    /\ ret' = normalizeData(a)
    /\ pc' = "done"
    /\ UNCHANGED <<fn, a, b, target, candidates, keyExtractorCalls, taskVars, appVars>>

CallNormalizeDataAgain ==
    /\ pc = "done"
    /\ fn = "normalizeData"
    /\ b' = ret
    /\ ret' = normalizeData(asObject(ret))
    /\ pc' = "again"
    /\ UNCHANGED <<fn, a, target, candidates, keyExtractorCalls, taskVars, appVars>>

NextNormalize ==
    \/ CallNormalizeData
    \/ CallNormalizeDataAgain

SpecNormalize == InitNormalize /\ [][NextNormalize]_vars

-----------------------------------------------------------------------------
(* Part 5: one invocation of services/apiService.processInChunks, statement  *)
(* by statement, with the calls of the processor settling in any order.      *)
(* calls is the record of the processor's invocations: the position and the  *)
(* item each was given and how its promise settled.                          *)

MaxChunkItems == 3  \* longest enumerated list of items
MaxChunkSize == 2   \* largest enumerated chunkSize

ChunkItemLists == UNION {[1..n -> {File(1), File(2)}] : n \in 0..MaxChunkItems}

NewChunksTask(items, chunkSize) ==
    [fn |-> "processInChunks", items |-> items, chunkSize |-> chunkSize,
     pc |-> "loop", i |-> 0, results |-> <<>>, chunkPromises |-> <<>>,
     rejection |-> Null, calls |-> <<>>, ret |-> Pending]

\* the enumerated lists with every chunkSize from 1 on, and the chunk size
\* of handleFilesUpload with one file more than a chunk holds
ChunksTasks ==
    {NewChunksTask(items, chunkSize) :
        items \in ChunkItemLists, chunkSize \in 1..MaxChunkSize}
    \cup {NewChunksTask([k \in 1..(CHUNK_SIZE + 1) |-> File(k)], CHUNK_SIZE)}

\* what a promise of the processor settles to for an item: a result (as
\* those of processSingleFile) or a rejection
Outcomes(item) ==
    {value([success |-> ok, file |-> item]) : ok \in BOOLEAN}
        \cup {[error |-> item]}

InitChunks ==
    /\ fn = "none"
    /\ a = <<>>
    /\ b = <<>>
    /\ target = <<>>
    /\ candidates = <<>>
    /\ pc = "idle"
    /\ ret = Pending
    /\ keyExtractorCalls = 0
    /\ NoApp
    /\ tasks \in [{1} -> ChunksTasks]
    /\ slots = <<>>

\* lines 38-43, or line 47 when the loop ends: the processor is invoked for
\* each item of the chunk in turn, and each invocation returns its promise
ChunkStart(id) ==
    LET task == tasks[id]
        n == Len(task.items)
        chunk == chunkOf(n, task.i, task.chunkSize)
        first == Len(task.calls)
        invoked == [k \in 1..Cardinality(chunk) |->
                        [position |-> task.i + k, item |-> task.items[task.i + k],
                         outcome |-> Pending]]
    IN  /\ task.fn = "processInChunks"
        /\ task.pc = "loop"
        /\ tasks' = [tasks EXCEPT ![id] =
                IF task.i < n
                THEN [task EXCEPT !.pc = "await",
                                  !.calls = @ \o invoked,
                                  !.chunkPromises = [k \in 1..Cardinality(chunk) |-> first + k]]
                ELSE [task EXCEPT !.pc = "done", !.ret = value(task.results)]]
        /\ UNCHANGED <<matcherVars, slots, appVars>>

\* the promise of the c-th invocation of the processor settles; the first
\* rejection among the promises awaited is the one Promise.all rejects with
ProcessorSettles(id, c, outcome) ==
    LET task == tasks[id]
    IN  /\ task.fn = "processInChunks"
        /\ c \in DOMAIN task.calls
        /\ task.calls[c].outcome = Pending
        /\ outcome \in Outcomes(task.calls[c].item)
        /\ tasks' = [tasks EXCEPT ![id] =
                [task EXCEPT !.calls[c].outcome = outcome,
                             !.rejection =
                                IF /\ task.rejection = Null
                                   /\ task.pc = "await"
                                   /\ "error" \in DOMAIN outcome
                                THEN outcome ELSE @]]
        /\ UNCHANGED <<matcherVars, slots, appVars>>

\* lines 44-45: every promise of the chunk is fulfilled and the await resumes
ChunkResolved(id) ==
    LET task == tasks[id]
        settled == [k \in DOMAIN task.chunkPromises |->
                        task.calls[task.chunkPromises[k]].outcome]
    IN  /\ task.fn = "processInChunks"
        /\ task.pc = "await"
        /\ \A k \in DOMAIN settled : "value" \in DOMAIN settled[k]
        /\ tasks' = [tasks EXCEPT ![id] =
                [task EXCEPT !.pc = "loop",
                             !.results = @ \o chunkResults([k \in DOMAIN settled |-> settled[k].value],
                                                           1, Len(settled)),
                             !.i = @ + task.chunkSize]]
        /\ UNCHANGED <<matcherVars, slots, appVars>>

\* line 44: a promise of the chunk is rejected and the await throws
ChunkRejected(id) ==
    LET task == tasks[id]
    IN  /\ task.fn = "processInChunks"
        /\ task.pc = "await"
        /\ task.rejection # Null
        /\ tasks' = [tasks EXCEPT ![id] =
                [task EXCEPT !.pc = "thrown", !.ret = task.rejection]]
        /\ UNCHANGED <<matcherVars, slots, appVars>>

NextChunks ==
    \/ \E id \in DOMAIN tasks : ChunkStart(id)
    \/ \E id \in DOMAIN tasks : \E c \in DOMAIN tasks[id].calls :
            \E outcome \in Outcomes(tasks[id].calls[c].item) : ProcessorSettles(id, c, outcome)
    \/ \E id \in DOMAIN tasks : ChunkResolved(id)
    \/ \E id \in DOMAIN tasks : ChunkRejected(id)

SpecChunks == InitChunks /\ [][NextChunks]_vars

-----------------------------------------------------------------------------
(* Part 6: one invocation of fetchWithRetry (server-utils.js lines 4-20),    *)
(* statement by statement.  calls is the record of the invocations of fn:    *)
(* how the promise of each settled.                                          *)

MaxRetries == 5     \* largest enumerated value of retries

\* line 4: retries = 3
DefaultRetries == 3

\* the arguments after fn: none, or retries
RetryArguments == {<<>>} \cup {<<retries>> : retries \in 1..MaxRetries}

NewRetryTask(arguments) ==
    [fn |-> "fetchWithRetry",
     retries |-> IF Len(arguments) >= 1 THEN arguments[1] ELSE DefaultRetries,
     pc |-> "loop", i |-> 0, lastError |-> Null, calls |-> <<>>, ret |-> Pending]

\* what the promise of the k-th invocation of fn settles to: a response, or
\* an error with a status (503: the model is overloaded) or without one
Statuses == {503, 500, 429}
FnOutcomes(k) ==
    {value([response |-> k, text |-> t]) : t \in {1, 2}}
        \cup {[status |-> status, attempt |-> k] : status \in Statuses}
        \cup {[attempt |-> k]}

\* mutant of isOverloaded: every error is retried
isOverloadedAlways(err) == TRUE

\* line 11: error.status === 503
isOverloaded(err) == "status" \in DOMAIN err /\ err.status = 503

InitRetry ==
    /\ fn = "none"
    /\ a = <<>>
    /\ b = <<>>
    /\ target = <<>>
    /\ candidates = <<>>
    /\ pc = "idle"
    /\ ret = Pending
    /\ keyExtractorCalls = 0
    /\ NoApp
    /\ tasks \in [{1} -> {NewRetryTask(arguments) : arguments \in RetryArguments}]
    /\ slots = <<>>

\* lines 6-8, or line 19 when the loop ends: fn is invoked and awaited
RetryLoop(id) ==
    LET task == tasks[id]
    IN  /\ task.fn = "fetchWithRetry"
        /\ task.pc = "loop"
        /\ tasks' = [tasks EXCEPT ![id] =
                IF task.i < task.retries
                THEN [task EXCEPT !.pc = "await", !.calls = Append(@, Pending)]
                ELSE [task EXCEPT !.pc = "thrown", !.ret = task.lastError]]
        /\ UNCHANGED <<matcherVars, slots, appVars>>

\* lines 8-16: the promise of fn settles; a response is returned, an error
\* is kept and either waited upon (line 13) or thrown again (line 15)
FnSettles(id, outcome) ==
    LET task == tasks[id]
    IN  /\ task.fn = "fetchWithRetry"
        /\ task.pc = "await"
        /\ outcome \in FnOutcomes(Len(task.calls))
        /\ tasks' = [tasks EXCEPT ![id] =
                IF "value" \in DOMAIN outcome
                THEN [task EXCEPT !.calls[Len(task.calls)] = outcome,
                                  !.pc = "done", !.ret = outcome]
                ELSE IF isOverloaded(outcome)
                THEN [task EXCEPT !.calls[Len(task.calls)] = outcome,
                                  !.lastError = outcome, !.pc = "delay"]
                ELSE [task EXCEPT !.calls[Len(task.calls)] = outcome,
                                  !.lastError = outcome, !.pc = "thrown", !.ret = outcome]]
        /\ UNCHANGED <<matcherVars, slots, appVars>>

\* lines 13 and 6: the delay has elapsed, i++
DelayElapsed(id) ==
    LET task == tasks[id]
    IN  /\ task.fn = "fetchWithRetry"
        /\ task.pc = "delay"
        /\ tasks' = [tasks EXCEPT ![id] = [task EXCEPT !.pc = "loop", !.i = @ + 1]]
        /\ UNCHANGED <<matcherVars, slots, appVars>>

NextRetry ==
    \/ \E id \in DOMAIN tasks : RetryLoop(id)
    \/ \E id \in DOMAIN tasks :
            \E outcome \in FnOutcomes(Len(tasks[id].calls)) : FnSettles(id, outcome)
    \/ \E id \in DOMAIN tasks : DelayElapsed(id)

SpecRetry == InitRetry /\ [][NextRetry]_vars

-----------------------------------------------------------------------------
(* Definitions used to state the properties *)

Returned(f) == pc = "done" /\ fn = f

\* levenshteinDistance has returned from a call that passed two strings
ReturnedDistance ==
    /\ Returned("levenshteinDistance")
    /\ a # undefined
    /\ b # undefined

\* the lower-case and upper-case forms of a code unit and the lower-case form
\* of a string, stated independently of the matcher
LowerCaseOf(c) ==
    IF c \in (65..90) \cup ((192..222) \ {215}) \cup ((913..939) \ {930})
    THEN c + 32 ELSE c
UpperCaseOf(c) ==
    IF c \in (97..122) \cup ((224..254) \ {247}) \cup ((945..969) \ {962})
    THEN c - 32
    ELSE IF c = 181 THEN 924
    ELSE IF c = 962 THEN 931
    ELSE c
Folded(s) == [i \in 1..Len(s) |-> LowerCaseOf(s[i])]

\* the strings one single-character edit away from s; intermediate strings
\* of an edit sequence may be one unit longer than the longest input
Insertions(s) ==
    IF Len(s) > MaxLen THEN {}
    ELSE {SubSeq(s, 1, i) \o <<c>> \o SubSeq(s, i + 1, Len(s)) :
            i \in 0..Len(s), c \in Alphabet}
Deletions(s) == {SubSeq(s, 1, i - 1) \o SubSeq(s, i + 1, Len(s)) : i \in 1..Len(s)}
Substitutions(s) == {[s EXCEPT ![i] = c] : i \in 1..Len(s), c \in Alphabet}
EditsOf(s) == Insertions(s) \cup Deletions(s) \cup Substitutions(s)

\* the strings reachable from s by at most k edits
RECURSIVE WithinEdits(_, _)
WithinEdits(s, k) ==
    IF k = 0 THEN {s}
    ELSE LET nearer == WithinEdits(s, k - 1)
         IN  nearer \cup UNION {EditsOf(u) : u \in nearer}

\* the label of the k-th candidate and its score against the query
LabelOf(k) == candidates[k].productName
DistanceOf(k) == levenshteinDistance(Folded(target), Folded(LabelOf(k)))
ScoreOf(k) == scoreOf(Folded(target), LabelOf(k))
Positions == 1..Len(candidates)

\* the strings compared, enumerated or fixtures
Universe == Queries \cup Labels \cup {DeliciousApples, FreshBananas, OrganicCarrots, VeryDeliciousApples}

\* the case variants of s: every unit kept, lower-cased or upper-cased
CaseVariants(s) ==
    {u \in Universe :
        /\ Len(u) = Len(s)
        /\ \A i \in 1..Len(s) : u[i] \in {s[i], LowerCaseOf(s[i]), UpperCaseOf(s[i])}}

\* the strings with the same lower-case form as s
FoldedUniverse == {<<Folded(u), u>> : u \in Universe}
SameLowerCase(s) ==
    LET f == Folded(s) IN {p[2] : p \in {x \in FoldedUniverse : x[1] = f}}

SameOutcome(r1, r2) ==
    IF r1 = Null \/ r2 = Null THEN r1 = Null /\ r2 = Null
    ELSE /\ r1.bestMatch.productCode = r2.bestMatch.productCode
         /\ r1.score = r2.score

-----------------------------------------------------------------------------
(* Properties *)

\* C1: levenshteinDistance(a, b) is the minimum number of single-character
\* insertions, deletions and substitutions (unit cost, no transposition)
\* that transform a into b: b is reachable by that many edits and by no fewer.
C1_MinimumEdits ==
    ReturnedDistance =>
        /\ ret \in Nat
        /\ b \in WithinEdits(a, ret)
        /\ ret > 0 => b \notin WithinEdits(a, ret - 1)

\* a pair of different lengths that needs a substitution besides the
\* insertions or deletions
C1_Witness ==
    /\ ReturnedDistance
    /\ Len(a) # Len(b)
    /\ ret > Abs(Len(a) - Len(b))
    /\ ret >= 2

\* C2: findBestMatch returns a result iff the query is non-empty, the list
\* is non-empty and some candidate has 2 * distance < max(len(query),
\* len(label)), i.e. similarity strictly above 0.5; a best score of exactly
\* 0.5 or lower gives null.
C2_ResultIffAboveHalf ==
    Returned("findBestMatch") =>
        (ret # Null <=>
            /\ Len(target) > 0
            /\ Len(candidates) > 0
            /\ \E k \in Positions :
                2 * DistanceOf(k) < Max(Len(target), Len(LabelOf(k))))

\* the best candidate scores exactly 0.5 and null is returned
C2_Witness ==
    /\ Returned("findBestMatch")
    /\ ret = Null
    /\ Len(target) > 0
    /\ \E k \in Positions : 2 * DistanceOf(k) = Max(Len(target), Len(LabelOf(k)))
    /\ \A k \in Positions : 2 * DistanceOf(k) >= Max(Len(target), Len(LabelOf(k)))

\* C3: a returned candidate is the first in list order among those with the
\* maximum score: none scores strictly higher, every earlier one scores
\* strictly lower.
C3_FirstOfTheBest ==
    (Returned("findBestMatch") /\ ret # Null) =>
        \E k \in Positions :
            /\ ret.bestMatch = candidates[k]
            /\ ret.score = ScoreOf(k)
            /\ \A j \in Positions : ~Greater(ScoreOf(j), ScoreOf(k))
            /\ \A j \in 1..(k - 1) : Greater(ScoreOf(k), ScoreOf(j))

\* a later candidate ties with the returned one
C3_Witness ==
    /\ Returned("findBestMatch")
    /\ ret # Null
    /\ \E j \in Positions :
        /\ j > ret.bestMatch.productCode
        /\ ScoreOf(j) = ret.score

\* C4: with a non-empty query and list, if some candidate's lower-cased
\* label equals the lower-cased query, the first such candidate is returned
\* with score exactly 1.
C4_ExactMatchWins ==
    (/\ Returned("findBestMatch")
     /\ Len(target) > 0
     /\ \E k \in Positions : Folded(LabelOf(k)) = Folded(target)) =>
        LET first == CHOOSE k \in Positions :
                        /\ Folded(LabelOf(k)) = Folded(target)
                        /\ \A j \in 1..(k - 1) : Folded(LabelOf(j)) # Folded(target)
        IN  /\ ret # Null
            /\ ret.bestMatch = candidates[first]
            /\ ret.score = One

\* two candidates equal the query up to case, and differ from it in case
C4_Witness ==
    /\ Returned("findBestMatch")
    /\ Len(target) > 0
    /\ \E j, k \in Positions :
        /\ j < k
        /\ Folded(LabelOf(j)) = Folded(target)
        /\ Folded(LabelOf(k)) = Folded(target)
        /\ LabelOf(j) # target

\* C5: an empty query (any list) and an empty list (any query) give null,
\* and the key extractor is never invoked.
C5_EmptyInputs ==
    (/\ Returned("findBestMatch")
     /\ (Len(target) = 0 \/ Len(candidates) = 0)) =>
        /\ ret = Null
        /\ keyExtractorCalls = 0

\* the empty query against a list holding an empty label
C5_Witness ==
    /\ Returned("findBestMatch")
    /\ Len(target) = 0
    /\ \E k \in Positions : Len(LabelOf(k)) = 0

\* C6: every non-null result has a score s with 0.5 < s <= 1.
C6_ScoreRange ==
    (Returned("findBestMatch") /\ ret # Null) =>
        /\ Greater(ret.score, Half)
        /\ ~Greater(ret.score, One)

\* a result strictly between 0.5 and 1
C6_Witness ==
    /\ Returned("findBestMatch")
    /\ ret # Null
    /\ Greater(One, ret.score)

\* C7: the similarity computed for a pair is in [0, 1], and is 1 exactly
\* when the lower-cased strings are identical, both empty included.
C7_SimilarityRange ==
    Returned("similarity") =>
        /\ ~Greater(Zero, ret)
        /\ ~Greater(ret, One)
        /\ (ret = One <=> Folded(a) = Folded(b))

\* both strings empty
C7_Witness ==
    /\ Returned("similarity")
    /\ a = <<>>
    /\ b = <<>>
    /\ ret = One

\* C8 as stated: replacing the query by any upper/lower-case variant of
\* it, or a candidate's label by a case variant of it, leaves the returned
\* candidate and its score unchanged.
C8_AnyCaseVariant ==
    Returned("findBestMatch") =>
        /\ \A q \in CaseVariants(target) :
            SameOutcome(ret, findBestMatch(q, candidates).value)
        /\ \A k \in Positions : \A l \in CaseVariants(LabelOf(k)) :
            SameOutcome(ret,
                findBestMatch(target, [candidates EXCEPT ![k].productName = l]).value)

\* C8 amended: replacing the query, or a candidate's label, by a string
\* with the same lower-case form (any change of case of the letters A-Z
\* among them) leaves the returned candidate and its score unchanged.
C8_CaseInsensitive ==
    Returned("findBestMatch") =>
        /\ \A q \in SameLowerCase(target) :
            SameOutcome(ret, findBestMatch(q, candidates).value)
        /\ \A k \in Positions : \A l \in SameLowerCase(LabelOf(k)) :
            SameOutcome(ret,
                findBestMatch(target, [candidates EXCEPT ![k].productName = l]).value)

\* a match whose query and label both have other strings of the same
\* lower-case form
C8_Witness ==
    /\ Returned("findBestMatch")
    /\ ret # Null
    /\ SameLowerCase(target) # {target}
    /\ SameLowerCase(ret.bestMatch.productName) # {ret.bestMatch.productName}

\* C9 as stated: against the fixture list, 'delicious apples' returns the
\* same candidate as 'Delicius Apples' with an identical score.
C9_SameCandidateSameScore ==
    (/\ Returned("findBestMatch")
     /\ target = deliciousApplesLower
     /\ candidates \in {testCandidates, scenarioCandidates}) =>
        SameOutcome(ret, findBestMatch(DeliciusApples, candidates).value)

\* C9 amended: both queries return P001; the score is 1 for
\* 'delicious apples' and 15/16 for 'Delicius Apples'.
C9_SameCandidate ==
    (/\ Returned("findBestMatch")
     /\ candidates \in {testCandidates, scenarioCandidates}) =>
        /\ target = deliciousApplesLower =>
            /\ ret # Null
            /\ ret.bestMatch = candidates[1]
            /\ ret.score = One
        /\ target = DeliciusApples =>
            /\ ret # Null
            /\ ret.bestMatch = candidates[1]
            /\ ret.score = Rat(15, 16)

C9_Witness ==
    /\ Returned("findBestMatch")
    /\ target = DeliciusApples
    /\ candidates = testCandidates
    /\ ret # Null
    /\ ret.bestMatch.productCode = 1

\* C10: levenshteinDistance(a, b) = 0 iff a and b are the same sequence of
\* code units; strings differing only in letter case are at distance >= 1,
\* and exactly 1 when a single letter differs in case.
C10_ZeroIffIdentical ==
    ReturnedDistance =>
        /\ ret = 0 <=> a = b
        /\ (a # b /\ Folded(a) = Folded(b)) =>
            /\ ret >= 1
            /\ Cardinality({i \in 1..Len(a) : a[i] # b[i]}) = 1 => ret = 1

\* two strings that differ in the case of one letter only
C10_Witness ==
    /\ ReturnedDistance
    /\ a # b
    /\ Folded(a) = Folded(b)
    /\ Cardinality({i \in 1..Len(a) : a[i] # b[i]}) = 1
    /\ Len(a) >= 2

\* C11: levenshteinDistance(a, b) = levenshteinDistance(b, a).
C11_Symmetric ==
    ReturnedDistance => ret = levenshteinDistance(b, a)

\* two different non-empty strings of different lengths
C11_Witness ==
    /\ ReturnedDistance
    /\ Len(a) > 0
    /\ Len(b) > Len(a)
    /\ ret > 0

\* C13: abs(length(a) - length(b)) <= levenshteinDistance(a, b)
\*      <= max(length(a), length(b)).
C13_LengthBounds ==
    ReturnedDistance =>
        /\ Abs(Len(a) - Len(b)) <= ret
        /\ ret <= Max(Len(a), Len(b))

\* non-empty strings of different lengths at the upper bound
C13_Witness ==
    /\ ReturnedDistance
    /\ Len(a) > 0
    /\ Len(b) > 0
    /\ Len(a) # Len(b)
    /\ ret = Max(Len(a), Len(b))

\* C14: levenshteinDistance(a, c) <= levenshteinDistance(a, b) +
\* levenshteinDistance(b, c) for every string c.
C14_Triangle ==
    ReturnedDistance =>
        \A c \in Strings :
            levenshteinDistance(a, c) <= ret + levenshteinDistance(b, c)

\* the inequality is tight through a middle string different from both ends
C14_Witness ==
    /\ ReturnedDistance
    /\ ret > 0
    /\ \E c \in Strings :
        /\ c # b
        /\ c # a
        /\ levenshteinDistance(a, c) = ret + levenshteinDistance(b, c)

\* the string an argument stands for when an omitted one counts as ''
AsString(x) == IF x = <<-1>> THEN <<>> ELSE x

\* C12: levenshteinDistance('', a) and levenshteinDistance(a, '') equal
\* length(a), and an omitted argument is treated exactly like the empty
\* string (with both absent the result is 0).
C12_EmptyAndOmitted ==
    Returned("levenshteinDistance") =>
        /\ AsString(a) = <<>> => ret = Len(AsString(b))
        /\ AsString(b) = <<>> => ret = Len(AsString(a))
        /\ (a = undefined \/ b = undefined) =>
                ret = levenshteinDistance(AsString(a), AsString(b))

\* both arguments omitted
C12_Witness ==
    /\ Returned("levenshteinDistance")
    /\ a = undefined
    /\ b = undefined
    /\ ret = 0

\* C19: a candidate whose extracted label is the empty string is scored
\* like any other candidate and raises no error: against a non-empty query
\* its score is 0, so it is never the returned match.
C19_EmptyLabel ==
    (Returned("findBestMatch") /\ Len(target) > 0) =>
        /\ keyExtractorCalls = Len(candidates)
        /\ \A k \in Positions :
                LabelOf(k) = <<>> =>
                    /\ ScoreOf(k) = Zero
                    /\ ret # Null => ret.bestMatch # candidates[k]

\* a list that starts with an empty label and still yields a match
C19_Witness ==
    /\ Returned("findBestMatch")
    /\ Len(target) > 0
    /\ Len(candidates) > 1
    /\ LabelOf(1) = <<>>
    /\ ret # Null
    /\ ret.bestMatch = candidates[2]

\* the k-th candidate makes the extractor throw or return a non-string
Breaks(k) ==
    \/ candidates[k] = Null
    \/ candidates[k].productName = <<-1>>

\* C15: if the key extractor throws (or returns a non-string) for some
\* candidate, findBestMatch does not catch it: the error reaches the caller
\* and no result is returned, even when an earlier candidate in the list
\* already scored above 0.5.  The loop stops at that candidate.
C15_ErrorPropagates ==
    (Returned("findBestMatch") /\ Len(target) > 0) =>
        /\ ret = TypeError <=> \E k \in Positions : Breaks(k)
        /\ \A k \in Positions :
                (Breaks(k) /\ \A j \in 1..(k - 1) : ~Breaks(j)) =>
                    keyExtractorCalls = k

\* a good match followed by a null entry
C15_Witness ==
    /\ Returned("findBestMatch")
    /\ Len(target) > 0
    /\ Len(candidates) > 1
    /\ ~Breaks(1)
    /\ Greater(ScoreOf(1), Half)
    /\ Breaks(2)
    /\ ret = TypeError

\* the result of a task's invocation when it runs alone
Alone(task) ==
    IF task.fn = "levenshteinDistance"
    THEN levenshteinDistance(task.a, task.b)
    ELSE findBestMatch(task.target, task.candidates).value

TaskDone(id) == tasks[id].pc = "done"

\* C16: when steps of two or more levenshteinDistance/findBestMatch
\* invocations are interleaved arbitrarily, each invocation returns the same
\* result it returns when run alone.
C16_Interleaved ==
    \A id \in DOMAIN tasks : TaskDone(id) => tasks[id].ret.value = Alone(tasks[id])

\* both tasks have filled a matrix, or scanned a list, and returned
C16_Witness ==
    /\ DOMAIN tasks = {1, 2}
    /\ TaskDone(1)
    /\ TaskDone(2)
    /\ tasks[1].i > 0
    /\ tasks[2].i > 0
    /\ tasks[1].fn = "levenshteinDistance"
    /\ tasks[1].ret.value > 0
    /\ tasks[2].fn = "findBestMatch"
    /\ tasks[2].ret.value # Null

SameArguments(t1, t2) ==
    /\ t1.fn = "findBestMatch"
    /\ t2.fn = "findBestMatch"
    /\ t1.target = t2.target
    /\ t1.candidates = t2.candidates

\* C17: findBestMatch is deterministic and pure: two invocations with equal
\* query, candidate list and key extractor return equal results regardless
\* of any invocations made before, and an invocation leaves the candidate
\* list and its records unchanged.
C17_DeterministicAndPure ==
    /\ [](\A id1, id2 \in DOMAIN tasks :
            (SameArguments(tasks[id1], tasks[id2]) /\ TaskDone(id1) /\ TaskDone(id2))
                => tasks[id1].ret = tasks[id2].ret)
    /\ [][\A id \in DOMAIN tasks :
            /\ tasks'[id].candidates = tasks[id].candidates
            /\ tasks'[id].target = tasks[id].target]_vars

\* two completed invocations on the same query and list, with a match
C17_Witness ==
    /\ DOMAIN tasks = {1, 2}
    /\ SameArguments(tasks[1], tasks[2])
    /\ TaskDone(1)
    /\ TaskDone(2)
    /\ tasks[1].ret.value # Null
    /\ tasks[1].ret = tasks[2].ret

\* C18: for all finite input strings, levenshteinDistance terminates and
\* returns a non-negative integer without raising an error; findBestMatch
\* terminates for every finite candidate list with a total key extractor.
C18_Terminates ==
    /\ [](\A id \in DOMAIN tasks :
            (TaskDone(id) /\ tasks[id].fn = "levenshteinDistance")
                => tasks[id].ret.value \in Nat)
    /\ <>(\A id \in DOMAIN tasks : TaskDone(id))

\* a distance returned after the whole matrix of two longest strings was filled
C18_Witness ==
    /\ DOMAIN tasks = {1}
    /\ TaskDone(1)
    /\ tasks[1].fn = "levenshteinDistance"
    /\ Len(tasks[1].a) = MaxLen
    /\ Len(tasks[1].b) = MaxLen
    /\ tasks[1].i = MaxLen
    /\ tasks[1].j = MaxLen
    /\ tasks[1].ret.value \in Nat

\* the positions of the files that succeeded (or failed) in a call's results,
\* and the position of the i-th of them
Succeeded(results) == {k \in 1..Len(results) : results[k].success}
Failed(results) == {k \in 1..Len(results) : ~results[k].success}
Nth(positions, i) ==
    CHOOSE k \in positions : Cardinality({j \in positions : j <= k}) = i

\* C20: after handleFilesUpload(files) completes with master data loaded,
\* appState is REVIEWING if at least one file was processed successfully and
\* ERROR if every file failed; batchData and processedFiles hold exactly the
\* successful files in the same order (batchData[i] was extracted from
\* processedFiles[i]), failedFiles holds exactly the failed files with their
\* reasons, and successes + failures = number of files.
C20_UploadOutcome ==
    returned # Null =>
        LET files == returned.files
            results == returned.results
            ok == Succeeded(results)
            ko == Failed(results)
        IN  /\ Len(results) = Len(files)
            /\ \A k \in 1..Len(files) : results[k].file = files[k]
            /\ appState = IF ok # {} THEN "REVIEWING" ELSE "ERROR"
            /\ Len(batchData) = Cardinality(ok)
            /\ Len(processedFiles) = Cardinality(ok)
            /\ Len(failedFiles) = Cardinality(ko)
            /\ Len(processedFiles) + Len(failedFiles) = Len(files)
            /\ \A i \in 1..Cardinality(ok) :
                    /\ processedFiles[i] = files[Nth(ok, i)]
                    /\ batchData[i] = results[Nth(ok, i)].data
                    /\ batchData[i].invoiceNumber = processedFiles[i].name
            /\ \A i \in 1..Cardinality(ko) :
                    /\ failedFiles[i].name = files[Nth(ko, i)].name
                    /\ failedFiles[i].reason = results[Nth(ko, i)].reason

\* a call that returned with its first file failed and its last file mapped
C20_Witness ==
    /\ returned # Null
    /\ Len(returned.files) = MaxFiles
    /\ ~returned.results[1].success
    /\ returned.results[MaxFiles].success
    /\ appState = "REVIEWING"
    /\ Len(failedFiles) > 0
    /\ batchData[Len(batchData)].items[1].productName = CocaCola

\* C21: handleMasterDataLoad(db) stores db as masterData and moves appState
\* to IDLE from any state, and it still does so when persisting the database
\* to localStorage throws (the stored item then keeps its previous value).
C21_MasterDataLoad ==
    loaded # Null =>
        /\ masterData = loaded.data
        /\ appState = "IDLE"
        /\ loaded.saved => localStorage = loaded.data

\* a database loaded while an upload was still awaiting its results, with
\* setItem throwing
C21_Witness ==
    /\ loaded # Null
    /\ ~loaded.saved
    /\ loaded.from = "PROCESSING"
    /\ uploads # <<>>
    /\ loaded.data = emptyDb
    /\ localStorage = mockDb
    /\ appState = "IDLE"

\* the entries of the master database whose key equals the OCR CUIT once the
\* hyphens are removed from both
SameCuit(entries, ocrCuit) ==
    {k \in 1..Len(entries) :
        SelectSeq(entries[k].cuit, LAMBDA c : c # 45) = SelectSeq(ocrCuit, LAMBDA c : c # 45)}

\* C22: for every OCR item of a successfully processed file: if the
\* invoice's supplier was identified (catalog CUIT equal to the OCR CUIT
\* after removing hyphens) and findBestMatch on the item description returns
\* a match, the line item carries that catalog product's productCode and
\* productName and matchScore equal to the match score; otherwise it carries
\* productCode '', productName 'N/A' and matchScore 0.
C22_LineItems ==
    Returned("processAndMapFile") =>
        LET ocrData == a.data
            ocrCuit == IF "cuit" \in DOMAIN ocrData THEN ocrData.cuit ELSE <<>>
            ocrItems == IF "items" \in DOMAIN ocrData THEN ocrData.items ELSE <<>>
            same == SameCuit(b.entries, ocrCuit)
            supplier == b.entries[CHOOSE k \in same : \A j \in same : k <= j].supplier
        IN  /\ ret.success
            /\ Len(ret.data.items) = Len(ocrItems)
            /\ \A k \in 1..Len(ocrItems) :
                    LET item == ret.data.items[k]
                        match == findBestMatch(ocrItems[k].description, supplier.products).value
                    IN  IF same # {} /\ match # Null
                        THEN /\ item.productCode = match.bestMatch.productCode
                             /\ item.productName = match.bestMatch.productName
                             /\ item.matchScore = match.score
                        ELSE /\ item.productCode = ""
                             /\ item.productName = notAvailable
                             /\ item.matchScore = Zero

\* a document whose CUIT is written without hyphens, mapped against the
\* catalog of the supplier with the hyphenated key: one item matched below
\* a perfect score, the other left unmatched
C22_Witness ==
    /\ Returned("processAndMapFile")
    /\ b = mockDb
    /\ "cuit" \in DOMAIN a.data
    /\ a.data.cuit = cuit301111
    /\ Len(ret.data.items) = 2
    /\ ret.data.items[1].productCode = "C100"
    /\ ret.data.items[1].matchScore # One
    /\ ret.data.items[2].productCode = ""
    /\ ret.data.items[2].ocrDescription = Pepsi

\* the first index from i on whose character is not of the class
NextNot(s, i, class) ==
    IF i > Len(s) THEN i
    ELSE CHOOSE m \in i..(Len(s) + 1) :
            /\ m = Len(s) + 1 \/ s[m] \notin class
            /\ \A n \in i..(m - 1) : s[n] \in class

\* the commas of s that are followed, after optional whitespace, by } or ]
TrailingCommas(s) ==
    {i \in 1..Len(s) :
        /\ s[i] = 44
        /\ LET j == NextNot(s, i + 1, WhiteSpace)
           IN  j <= Len(s) /\ s[j] \in {125, 93}}

\* the occurrences <<i, j, k, l>> in s of '{' or ',' at i, a word from j to
\* k - 1 and ':' at l, with nothing but whitespace in between
UnquotedKeys(s) ==
    {p \in {<<i, NextNot(s, i + 1, WhiteSpace),
              NextNot(s, NextNot(s, i + 1, WhiteSpace), WordCharacters),
              NextNot(s, NextNot(s, NextNot(s, i + 1, WhiteSpace), WordCharacters), WhiteSpace)>> :
                i \in {i \in 1..Len(s) : s[i] \in {123, 44}}} :
        /\ p[3] > p[2]
        /\ p[4] <= Len(s)
        /\ s[p[4]] = 58}

\* the occurrences <<i, j, l>> in s of a double-quoted key: quotes at i and
\* j around a text without quotes, then ':' at l after optional whitespace
QuotedKeys(s) ==
    {p \in {<<i, NextNot(s, i + 1, (0..65535) \ {34}),
              NextNot(s, NextNot(s, i + 1, (0..65535) \ {34}) + 1, WhiteSpace)>> :
                i \in {i \in 1..Len(s) : s[i] = 34}} :
        /\ p[2] <= Len(s)
        /\ p[3] <= Len(s)
        /\ s[p[3]] = 58}

Contains(s, part) ==
    \E p \in 0..(Len(s) - Len(part)) : SubSeq(s, p + 1, p + Len(part)) = part

\* s with every single quote replaced by a double quote
WithDoubleQuotes(s) == [i \in 1..Len(s) |-> IF s[i] = 39 THEN 34 ELSE s[i]]

\* C23: repairJson removes trailing commas: for every input string, its
\* output contains no comma that is followed, after optional whitespace, by
\* a closing '}' or ']'.
C23_NoTrailingComma ==
    Returned("repairJson") => TrailingCommas(ret) = {}

DataAliases ==
    [invoiceNumber |-> invoiceNumberKeys,
     invoiceDate |-> invoiceDateKeys,
     supplierName |-> supplierNameKeys,
     cuit |-> cuitKeys,
     totalAmount |-> totalAmountKeys,
     ivaPerception |-> ivaPerceptionKeys,
     grossIncomePerception |-> grossIncomePerceptionKeys]
ItemAliases ==
    [quantity |-> quantityKeys,
     description |-> descriptionKeys,
     unitPrice |-> unitPriceKeys,
     total |-> totalKeys]

\* the lower-case forms of the aliases
FoldedAliases(table) == [field \in DOMAIN table |-> {Folded(key) : key \in elements(table[field])}]
FoldedDataAliases == FoldedAliases(DataAliases)
FoldedItemAliases == FoldedAliases(ItemAliases)
FoldedItemsKey == Folded(itemsKeys[1])

\* the positions of the properties of obj whose name is one of the aliases,
\* whatever the case of its letters
Matching(obj, folded) == {n \in 1..Len(obj) : Folded(obj[n].key) \in folded}

Slashes(s) == {i \in 1..Len(s) : s[i] = 47}

\* out holds, for each field, the value of a property of obj named by one
\* of the field's aliases (but for a date written with '/', which is
\* reformatted), and undefined when there is none
HoldsAliases(out, obj, table) ==
    \A field \in DOMAIN table :
        LET matching == Matching(obj, table[field])
        IN  IF matching = {} THEN out[field] = undefinedValue
            ELSE \E n \in matching :
                    \/ out[field] = obj[n].value
                    \/ /\ field = "invoiceDate"
                       /\ "string" \in DOMAIN obj[n].value
                       /\ Slashes(obj[n].value.string) # {}

DateOf(obj) ==
    LET matching == Matching(obj, FoldedDataAliases.invoiceDate)
    IN  IF matching = {} THEN undefinedValue
        ELSE obj[CHOOSE n \in matching : \A m \in matching : n <= m].value

\* C27: normalizeData formats the invoice date from DD/MM/YYYY to
\* YYYY-MM-DD: a string date made of three '/'-separated parts d/m/y becomes
\* 'y-m-d', and a date that is already YYYY-MM-DD (no '/') is returned
\* unchanged, so applying normalizeData to its own output does not change
\* the date.
C27_DateFormat ==
    /\ Returned("normalizeData") =>
            LET date == DateOf(a)
            IN  "string" \in DOMAIN date =>
                    LET s == date.string
                    IN  /\ Cardinality(Slashes(s)) = 2 =>
                                LET p == CHOOSE p \in Slashes(s) : \A q \in Slashes(s) : p <= q
                                    q == CHOOSE q \in Slashes(s) : \A r \in Slashes(s) : r <= q
                                IN  ret.invoiceDate =
                                        string(SubSeq(s, q + 1, Len(s)) \o <<45>>
                                                \o SubSeq(s, p + 1, q - 1) \o <<45>>
                                                \o SubSeq(s, 1, p - 1))
                        /\ Slashes(s) = {} => ret.invoiceDate = date
    /\ (pc = "again" /\ fn = "normalizeData") => ret.invoiceDate = b.invoiceDate

\* the date of the test, formatted by the first call and kept by the second
C27_Witness ==
    /\ pc = "again"
    /\ fn = "normalizeData"
    /\ a = rawDataDate
    /\ b.invoiceDate = string(date2023_07_15)
    /\ ret.invoiceDate = string(date2023_07_15)

\* C28: in every reachable state of the app, appState = REVIEWING implies
\* that masterData is loaded (non-null) and batchData is non-empty; this
\* holds for every interleaving of user actions, including handleResetBatch
\* or handleFullReset invoked while a handleFilesUpload call is still
\* awaiting its results.
C28_ReviewingHasData ==
    appState = "REVIEWING" =>
        /\ masterData # Null
        /\ batchData # <<>>

\* the invocations of the processor whose promise has not settled, and the
\* chunk (from 0) of a position
InFlight(task) == {c \in DOMAIN task.calls : task.calls[c].outcome = Pending}
ChunkNumber(task, position) == (position - 1) \div task.chunkSize
CallsOf(task, position) == {c \in DOMAIN task.calls : task.calls[c].position = position}

\* C29: processInChunks(items, chunkSize, processor) never has more than
\* chunkSize processor calls in flight at once: no item of chunk k+1 starts
\* before every call of chunk k has resolved, every item is processed
\* exactly once (no item twice at any time, each item once when the call
\* returns), and results[i] is the result of processor(items[i]) in input
\* order.
C29_Chunks ==
    \A id \in DOMAIN tasks :
        LET task == tasks[id]
            positions == 1..Len(task.items)
        IN  task.fn = "processInChunks" =>
                /\ Cardinality(InFlight(task)) <= task.chunkSize
                /\ \A c \in DOMAIN task.calls, q \in positions :
                        ChunkNumber(task, q) < ChunkNumber(task, task.calls[c].position)
                            => \E d \in CallsOf(task, q) : "value" \in DOMAIN task.calls[d].outcome
                /\ \A q \in positions : Cardinality(CallsOf(task, q)) <= 1
                /\ \A c \in DOMAIN task.calls :
                        /\ task.calls[c].position \in positions
                        /\ task.calls[c].item = task.items[task.calls[c].position]
                /\ task.pc = "done" =>
                        /\ Len(task.ret.value) = Len(task.items)
                        /\ \A q \in positions :
                                /\ Cardinality(CallsOf(task, q)) = 1
                                /\ \A c \in CallsOf(task, q) :
                                        task.calls[c].outcome = value(task.ret.value[q])

\* a call that returned after two chunks, the second of one item; the two
\* items of the first chunk were the same file and gave different results
C29_Witness ==
    /\ DOMAIN tasks = {1}
    /\ tasks[1].fn = "processInChunks"
    /\ tasks[1].pc = "done"
    /\ tasks[1].chunkSize = 2
    /\ Len(tasks[1].items) = 3
    /\ tasks[1].items[1] = tasks[1].items[2]
    /\ tasks[1].ret.value[1].success
    /\ ~tasks[1].ret.value[2].success
    /\ tasks[1].ret.value[3].file = tasks[1].items[3]

\* the k-th invocation of fn failed with status 503
Failed503(task, k) ==
    /\ "status" \in DOMAIN task.calls[k]
    /\ task.calls[k].status = 503

\* C30: fetchWithRetry(fn, retries) invokes fn at most `retries` times (3 by
\* default): it returns the first successful result without calling fn
\* again, rethrows an error whose status is not 503 immediately without any
\* further attempt, retries only after a 503 error, and throws the last 503
\* error once all attempts are used.
C30_Retry ==
    \A id \in DOMAIN tasks :
        LET task == tasks[id]
            n == Len(task.calls)
        IN  task.fn = "fetchWithRetry" =>
                /\ n <= task.retries
                /\ \A k \in 1..(n - 1) : Failed503(task, k)
                /\ (n > 0 /\ "value" \in DOMAIN task.calls[n]) =>
                        task.pc = "done" /\ task.ret = task.calls[n]
                /\ (n > 0 /\ task.calls[n] # Pending
                          /\ "value" \notin DOMAIN task.calls[n] /\ ~Failed503(task, n)) =>
                        task.pc = "thrown" /\ task.ret = task.calls[n]
                /\ task.pc = "done" => n > 0 /\ "value" \in DOMAIN task.calls[n]
                /\ task.pc = "thrown" =>
                        /\ n > 0
                        /\ task.ret = task.calls[n]
                        /\ "value" \notin DOMAIN task.ret
                        /\ Failed503(task, n) => n = task.retries

\* retries omitted, three attempts that failed with 503: the third error is
\* thrown
C30_Witness ==
    /\ DOMAIN tasks = {1}
    /\ tasks[1].fn = "fetchWithRetry"
    /\ tasks[1].pc = "thrown"
    /\ tasks[1].retries = DefaultRetries
    /\ Len(tasks[1].calls) = DefaultRetries
    /\ tasks[1].ret = [status |-> 503, attempt |-> 3]

====
